---- MODULE Spec2Model ----
(***************************************************************************)
(* A model of apkfile (src/apkfile/__init__.py): the badging-text parser   *)
(* (ApkFile), the lazily extracted bundles (ApkmFile, XapkFile, ApksFile)  *)
(* and the installer (install_apks).                                       *)
(*                                                                         *)
(* Four specifications share the module: SpecParse (ApkFile construction   *)
(* on one aapt output), SpecBundle (one bundle object and the calls made   *)
(* on it), SpecInstall (one install_apks call) and SpecQuery (one property *)
(* or method of Abi or of a descriptor, on given operands).  Each keeps    *)
(* the other specifications' variables at their idle values.               *)
(***************************************************************************)
EXTENDS Integers, Sequences, FiniteSets, TLC

VARIABLES
    aapt_out,   \* SpecParse: what `aapt d badging` answers for the file
    parsed,     \* SpecParse: the result of ApkFile(path), or pending
    zip,        \* SpecBundle: the container archive and constructor arguments
    obj,        \* SpecBundle: the bundle object's slots (or not constructed)
    disk,       \* SpecBundle: the extraction directory on disk
    calls,      \* SpecBundle: how often the archive was unpacked / an APK parsed
    last,       \* SpecBundle: the last call made on the object and its outcome
    scope,      \* SpecBundle: whether the caller is inside `with` on the object
    job,        \* SpecInstall: the arguments of install_apks and the devices
    run,        \* SpecInstall: the progress and the effects of the call
    query,      \* SpecQuery: the property or method asked and its operands
    reply       \* SpecQuery: what the property or method returned

vars == <<aapt_out, parsed, zip, obj, disk, calls, last, scope, job, run, query, reply>>
parseVars == <<aapt_out, parsed>>
bundleVars == <<zip, obj, disk, calls, last, scope>>
installVars == <<job, run>>
queryVars == <<query, reply>>

(***************************************************************************)
(* Bounds of the model.                                                    *)
(***************************************************************************)
MaxBody == 2        \* fragments of a badging text after its package line
MaxSplits == 2      \* split members of a container archive
MaxApks == 3        \* paths handed to install_apks
MaxDeclared == 2    \* locales, and ABIs, a queried descriptor declares

(***************************************************************************)
(* Python values.  A value carries its type, so that None, (), False and   *)
(* 'auto' stay different values.                                           *)
(***************************************************************************)
PyNone == [t |-> "None"]
PyStr(s) == [t |-> "str", v |-> s]
PyInt(i) == [t |-> "int", v |-> i]
PyBool(b) == [t |-> "bool", v |-> b]
PyTuple(s) == [t |-> "tuple", v |-> s]
PyDict(f) == [t |-> "dict", v |-> f]
PyEnum(cls, member) == [t |-> cls, v |-> member]

Range(s) == {s[i] : i \in DOMAIN s}

(***************************************************************************)
(* Text.  A badging text is a sequence of fragments  prefix + rest, the    *)
(* rest being a sequence of lexemes: a quote, a blank or a word.           *)
(***************************************************************************)
Q == "'"
SP == " "

RECURSIVE Join(_)
Join(lex) == IF lex = <<>> THEN "" ELSE Head(lex) \o Join(Tail(lex))

\* int(s) of Python, on the words of the model: defined on numerals only.
IntValue == [w \in {"0", "7", "12", "19", "21", "30", "160", "240", "300", "400"} |->
               CASE w = "0" -> 0 [] w = "7" -> 7 [] w = "12" -> 12 [] w = "19" -> 19
                 [] w = "21" -> 21 [] w = "30" -> 30 [] w = "160" -> 160
                 [] w = "240" -> 240 [] w = "300" -> 300 [] OTHER -> 400]
IsNumeral(w) == w \in DOMAIN IntValue

\* Character classes of the patterns, as the words made of their characters.
DigitWords == DOMAIN IntValue
LowerWords == {"small", "normal", "large", "true", "false", "en", "fr"}
TwoLetterWords == {"en", "fr"}
LangWords == LowerWords \cup DigitWords \cup {"--_--", "en-US", "Main", "Q"}
\* re.match(r'^[\dA-Za-z\-]+$', lang): the words without '_'.
LocaleShaped(w) == w \in (LangWords \ {"--_--"})

(***************************************************************************)
(* Abi and InstallLocation (Enum with _missing_).                          *)
(***************************************************************************)
AbiValues == [ARM |-> "armeabi", ARM7 |-> "armeabi-v7a", ARM64 |-> "arm64-v8a",
              X86 |-> "x86", X86_64 |-> "x86_64", UNKNOWN |-> "unknown"]
AbiMembers == DOMAIN AbiValues

\* Abi(value): the member with that value, else _missing_.
Abi_missing_first(value) == "ARM"
Abi_missing(value) == "UNKNOWN"
Abi(value) ==
    IF \E m \in AbiMembers : AbiValues[m] = value
    THEN CHOOSE m \in AbiMembers : AbiValues[m] = value
    ELSE Abi_missing(value)

Abi_all == {m \in AbiMembers : m # "UNKNOWN"}

compatibility_map ==
    [X86_64 |-> {"X86", "ARM64", "ARM7", "ARM"},
     X86 |-> {"ARM64", "ARM7", "ARM"},
     ARM64 |-> {"ARM7", "ARM"},
     ARM7 |-> {"ARM"},
     ARM |-> {},
     UNKNOWN |-> {}]

is_compatible_with_symmetric(self, other) ==
    self = other \/ other \in compatibility_map[self] \/ self \in compatibility_map[other]
is_compatible_with(self, other) ==
    IF self = other THEN TRUE ELSE other \in compatibility_map[self]

InstallLocationValues == [AUTO |-> "auto", INTERNAL_ONLY |-> "internalOnly",
                          PREFER_EXTERNAL |-> "preferExternal"]
InstallLocationMembers == DOMAIN InstallLocationValues

\* InstallLocation(value).  The argument is any Python value: only a str can
\* equal a member's value, everything else (a list, None) goes to _missing_.
InstallLocation_missing(value) == "AUTO"
InstallLocation(value) ==
    IF value.t = "str" /\ \E m \in InstallLocationMembers : InstallLocationValues[m] = value.v
    THEN CHOOSE m \in InstallLocationMembers : InstallLocationValues[m] = value.v
    ELSE InstallLocation_missing(value)

(***************************************************************************)
(* Regular expressions of _extraction_patterns, on fragments.              *)
(***************************************************************************)
Fragment(tag, key, lex) == [tag |-> tag, key |-> key, lex |-> lex]

\* prefix'([^']+)' : the text between the first quote and the next one.
SingleMatches(lex) ==
    /\ Len(lex) >= 3
    /\ lex[1] = Q
    /\ lex[2] # Q
    /\ \E j \in 3..Len(lex) : lex[j] = Q
SingleCapture(lex) ==
    LET j == CHOOSE j \in 3..Len(lex) :
                 lex[j] = Q /\ \A i \in 3..(j - 1) : lex[i] # Q
    IN  Join(SubSeq(lex, 2, j - 1))

\* prefix'([class'\s]+)' : greedy, so up to the last quote of the longest run
\* of class characters, quotes and blanks.
ClassRun(lex, words) ==
    {k \in 1..Len(lex) : \A i \in 2..k : lex[i] \in ({Q, SP} \cup words)}
ClassMatches(lex, words) ==
    /\ Len(lex) >= 3
    /\ lex[1] = Q
    /\ \E j \in ClassRun(lex, words) : j >= 3 /\ lex[j] = Q
ClassCapture(lex, words) ==
    LET j == CHOOSE j \in ClassRun(lex, words) :
                 /\ j >= 3 /\ lex[j] = Q
                 /\ \A i \in ClassRun(lex, words) : (i >= 3 /\ lex[i] = Q) => i <= j
    IN  SubSeq(lex, 2, j - 1)

\* The patterns: the prefixes each one matches and the shape of its group(s).
extraction_patterns ==
    [package_name |-> [tags |-> {"package: name="}, shape |-> "single"],
     version_code |-> [tags |-> {"versionCode="}, shape |-> "single"],
     version_name |-> [tags |-> {"versionName="}, shape |-> "single"],
     min_sdk_version |-> [tags |-> {"sdkVersion:"}, shape |-> "single"],
     target_sdk_version |-> [tags |-> {"targetSdkVersion:"}, shape |-> "single"],
     install_location |-> [tags |-> {"install-location:"}, shape |-> "single"],
     labels |-> [tags |-> {"application-label-"}, shape |-> "pair2"],
     permissions |-> [tags |-> {"uses-permission: name="}, shape |-> "single"],
     libraries |-> [tags |-> {"uses-library:", "uses-library-not-required:"},
                    shape |-> "single"],
     features |-> [tags |-> {"uses-feature: name=", "uses-feature-not-required: name="},
                   shape |-> "single"],
     launchable_activity |-> [tags |-> {"launchable-activity: name="}, shape |-> "single"],
     supported_screens |-> [tags |-> {"supports-screens: "}, shape |-> "lower"],
     supports_any_density |-> [tags |-> {"supports-any-density: "}, shape |-> "single"],
     langs |-> [tags |-> {"locales: "}, shape |-> "lang"],
     densities |-> [tags |-> {"densities: "}, shape |-> "digit"],
     abis |-> [tags |-> {"native-code: "}, shape |-> "rest"],
     icons |-> [tags |-> {"application-icon-"}, shape |-> "pair9"],
     split_name |-> [tags |-> {"split="}, shape |-> "single"]]

ShapeWords(shape) ==
    CASE shape = "lower" -> LowerWords
      [] shape = "lang" -> LangWords
      [] OTHER -> DigitWords

FragmentMatches(pattern, f) ==
    /\ f.tag \in pattern.tags
    /\ CASE pattern.shape = "rest" -> TRUE
         [] pattern.shape = "single" -> SingleMatches(f.lex)
         \* application-label-([a-z]{2}): and application-icon-([0-9]+):
         [] pattern.shape = "pair2" -> f.key \in TwoLetterWords /\ SingleMatches(f.lex)
         [] pattern.shape = "pair9" -> f.key \in DigitWords /\ SingleMatches(f.lex)
         [] OTHER -> ClassMatches(f.lex, ShapeWords(pattern.shape))

FragmentCapture(pattern, f) ==
    CASE pattern.shape = "rest" -> f.lex
      [] pattern.shape = "single" -> SingleCapture(f.lex)
      [] pattern.shape \in {"pair2", "pair9"} -> <<f.key, SingleCapture(f.lex)>>
      [] OTHER -> ClassCapture(f.lex, ShapeWords(pattern.shape))

\* re.findall(pattern, raw): every match, in the order of the text.
FindAll(pattern, raw) ==
    LET hits == SelectSeq(raw, LAMBDA f : FragmentMatches(pattern, f))
    IN  [i \in 1..Len(hits) |-> FragmentCapture(pattern, hits[i])]

\* re.split(r"'\s'", group)
RECURSIVE ReSplit(_)
ReSplit(lex) ==
    LET at == {i \in 1..(Len(lex) - 2) : lex[i] = Q /\ lex[i + 1] = SP /\ lex[i + 2] = Q}
    IN  IF at = {} THEN <<lex>>
        ELSE LET i == CHOOSE i \in at : \A k \in at : i <= k
             IN  <<SubSeq(lex, 1, i - 1)>> \o ReSplit(SubSeq(lex, i + 3, Len(lex)))

\* s.replace("'", "")
StripQuotes(lex) == Join(SelectSeq(lex, LAMBDA l : l # Q))

(***************************************************************************)
(* ApkFile.__init__ : get_raw_aapt, then the fields one by one.            *)
(***************************************************************************)
PyList(s) == [t |-> "list", v |-> s]

\* data.get(key): the list of matches, or None for a key the dict lacks.
DataGet(data, key) == IF key \in DOMAIN data THEN PyList(data[key]) ELSE PyNone

\* Truth of a Python value, as `or` and `if` take it.
Truthy(x) ==
    CASE x.t = "None" -> FALSE
      [] x.t \in {"list", "tuple", "str"} -> Len(x.v) > 0
      [] x.t = "int" -> x.v # 0
      [] x.t = "bool" -> x.v
      [] OTHER -> TRUE
PyOr(a, b) == IF Truthy(a) THEN a ELSE b

\* {key: value for key, value in pairs}: the last pair of a key wins.
DictOf(pairs) ==
    [k \in {pairs[i][1] : i \in DOMAIN pairs} |->
        LET i == CHOOSE i \in DOMAIN pairs :
                     pairs[i][1] = k /\ \A j \in DOMAIN pairs : pairs[j][1] = k => j <= i
        IN  pairs[i][2]]

\* The exception of get_raw_aapt / the constructor's except clause, if any.
AaptError(out) ==
    CASE out.status = "ok" -> "none"
      [] out.status = "no aapt" -> "FileNotFoundError"
      [] out.status \in {"Invalid file", "AndroidManifest.xml"} -> "FileExistsError"
      [] out.status = "is neither a directory nor file" -> "FileNotFoundError"
      [] OTHER -> "RuntimeError"

\* int((data.get(name) or (0,))[0]) or None ; OptionalIntFails: int() raises.
OptionalIntFails(data, name) ==
    Truthy(DataGet(data, name)) /\ ~IsNumeral(data[name][1])
OptionalInt_zero(data, name) ==
    PyInt(IF Truthy(DataGet(data, name)) THEN IntValue[data[name][1]] ELSE 0)
OptionalInt(data, name) ==
    LET n == IF Truthy(DataGet(data, name)) THEN IntValue[data[name][1]] ELSE 0
    IN  PyOr(PyInt(n), PyNone)

\* (data.get(name) or (None,))[0]
OptionalStr(data, name) ==
    LET got == DataGet(data, name)
    IN  IF Truthy(got) THEN PyStr(got.v[1]) ELSE PyNone

\* tuple(data.get(name, ()))
TupleOf(data, name) ==
    IF name \in DOMAIN data THEN PyTuple(data[name]) ELSE PyTuple(<<>>)

ParseLangs(group) ==
    LET pieces == SelectSeq(ReSplit(group),
                            LAMBDA piece : Len(piece) = 1 /\ LocaleShaped(piece[1]))
    IN  [i \in 1..Len(pieces) |-> Join(pieces[i])]
ParseStrs(group) ==
    LET pieces == ReSplit(group) IN [i \in 1..Len(pieces) |-> Join(pieces[i])]
ParseAbis(group) ==
    LET pieces == ReSplit(group) IN [i \in 1..Len(pieces) |-> Abi(StripQuotes(pieces[i]))]

ApkFileFields(path, raw) ==
    LET data == [name \in DOMAIN extraction_patterns |->
                    FindAll(extraction_patterns[name], raw)]
    IN  [err |-> "none",
         path |-> path,
         package_name |-> PyStr(data["package_name"][1]),
         version_code |-> PyInt(IntValue[data["version_code"][1]]),
         version_name |-> OptionalStr(data, "version_name"),
         min_sdk_version |-> OptionalInt(data, "min_sdk_version"),
         target_sdk_version |-> OptionalInt(data, "target_sdk_version"),
         install_location |->
             PyEnum("InstallLocation",
                    InstallLocation(PyOr(DataGet(data, "install_location"), PyStr("auto")))),
         labels |-> PyDict(IF "labels" \in DOMAIN data THEN DictOf(data["labels"]) ELSE <<>>),
         permissions |-> TupleOf(data, "permissions"),
         libraries |-> TupleOf(data, "libraries"),
         features |-> TupleOf(data, "features"),
         launchable_activity |-> OptionalStr(data, "launchable_activity"),
         supported_screens |->
             IF Truthy(DataGet(data, "supports_screens"))
             THEN PyTuple(ParseStrs(data["supports_screens"][1]))
             ELSE PyTuple(<<>>),
         supports_any_density |->
             LET got == OptionalStr(data, "supports_any_density")
             IN  PyBool(got.t = "str" /\ got.v = "true"),
         langs |-> IF Truthy(DataGet(data, "langs"))
                   THEN PyTuple(ParseLangs(data["langs"][1])) ELSE PyTuple(<<>>),
         densities |-> IF Truthy(DataGet(data, "densities"))
                       THEN PyTuple(ParseStrs(data["densities"][1])) ELSE PyTuple(<<>>),
         split_name |-> IF Truthy(DataGet(data, "split_name"))
                        THEN PyStr(data["split_name"][1]) ELSE PyNone,
         abis |-> IF Truthy(DataGet(data, "abis"))
                  THEN PyTuple(ParseAbis(data["abis"][1])) ELSE PyTuple(<<>>),
         icons |-> PyDict(IF "icons" \in DOMAIN data
                          THEN DictOf([i \in DOMAIN data["icons"] |->
                                         <<IntValue[data["icons"][i][1]], data["icons"][i][2]>>])
                          ELSE <<>>)]

\* The first statement of the constructor that raises, in program order.
ApkFileError(out) ==
    LET raw == out.raw
        data == [name \in DOMAIN extraction_patterns |->
                    FindAll(extraction_patterns[name], raw)]
    IN  CASE AaptError(out) # "none" -> AaptError(out)
          [] data["package_name"] = <<>> -> "IndexError"
          [] data["version_code"] = <<>> -> "IndexError"
          [] ~IsNumeral(data["version_code"][1]) -> "ValueError"
          [] OptionalIntFails(data, "min_sdk_version") -> "ValueError"
          [] OptionalIntFails(data, "target_sdk_version") -> "ValueError"
          [] OTHER -> "none"

\* ApkFile(path): the descriptor, or the exception that leaves none behind.
ApkFile_lenient(path, out) ==
    CASE ApkFileError(out) = "none" -> ApkFileFields(path, out.raw)
      [] ApkFileError(out) = "IndexError" ->
            [err |-> "none", path |-> path, package_name |-> PyNone, version_code |-> PyNone]
      [] OTHER -> [err |-> ApkFileError(out)]
ApkFile(path, out) ==
    IF ApkFileError(out) = "none" THEN ApkFileFields(path, out.raw)
    ELSE [err |-> ApkFileError(out)]

(***************************************************************************)
(* Badging texts of the model: a package line (or none) and up to MaxBody  *)
(* further fragments.                                                      *)
(***************************************************************************)
Quoted(w) == <<Q, w, Q>>
QuotedList(ws) ==
    IF Len(ws) = 1 THEN Quoted(ws[1])
    ELSE IF Len(ws) = 2 THEN Quoted(ws[1]) \o <<SP>> \o Quoted(ws[2])
    ELSE Quoted(ws[1]) \o <<SP>> \o Quoted(ws[2]) \o <<SP>> \o Quoted(ws[3])

PackageLines ==
    {<<>>,
     <<Fragment("package: name=", "", Quoted("com.a")),
       Fragment("versionCode=", "", Quoted("7")),
       Fragment("versionName=", "", Quoted("1.0"))>>,
     <<Fragment("package: name=", "", Quoted("com.b")),
       Fragment("versionCode=", "", Quoted("12")),
       Fragment("split=", "", Quoted("config.en"))>>,
     <<Fragment("package: name=", "", Quoted("com.a"))>>,
     <<Fragment("versionCode=", "", Quoted("7"))>>,
     <<Fragment("package: name=", "", Quoted("com.a")),
       Fragment("versionCode=", "", Quoted("x"))>>}

BodyFragments ==
    {Fragment("sdkVersion:", "", Quoted("21")),
     Fragment("sdkVersion:", "", Quoted("0")),
     Fragment("sdkVersion:", "", Quoted("Q")),
     Fragment("targetSdkVersion:", "", Quoted("30")),
     Fragment("install-location:", "", Quoted("internalOnly")),
     Fragment("install-location:", "", Quoted("preferExternal")),
     Fragment("install-location:", "", Quoted("bogus")),
     Fragment("application-label-", "en", Quoted("App")),
     Fragment("uses-permission: name=", "", Quoted("p1")),
     Fragment("uses-library:", "", Quoted("lib1")),
     Fragment("uses-feature-not-required: name=", "", Quoted("f1")),
     Fragment("launchable-activity: name=", "", Quoted("Main")),
     Fragment("supports-screens: ", "", QuotedList(<<"small", "normal">>)),
     Fragment("supports-any-density: ", "", Quoted("true")),
     Fragment("locales: ", "", QuotedList(<<"--_--", "en", "fr">>)),
     Fragment("densities: ", "", QuotedList(<<"160", "240">>)),
     Fragment("native-code: ", "", Quoted("arm64-v8a")),
     Fragment("native-code: ", "", QuotedList(<<"armeabi-v7a", "mips", "x86">>)),
     Fragment("native-code: ", "", Quoted("mips")),
     Fragment("application-icon-", "160", Quoted("ic.png"))}

RECURSIVE SeqsUpTo(_, _)
SeqsUpTo(S, n) ==
    IF n = 0 THEN {<<>>}
    ELSE LET shorter == SeqsUpTo(S, n - 1)
         IN  shorter \cup {Append(s, x) : s \in {t \in shorter : Len(t) = n - 1}, x \in S}

BadgingTexts == {h \o b : h \in PackageLines, b \in SeqsUpTo(BodyFragments, MaxBody)}

AaptOutputs ==
    {[status |-> "ok", raw |-> raw] : raw \in BadgingTexts}
    \cup {[status |-> st, raw |-> <<>>] :
            st \in {"no aapt", "Invalid file", "is neither a directory nor file", "other"}}

(***************************************************************************)
(* Idle values of the variables a specification does not use.              *)
(***************************************************************************)
ParseIdle == aapt_out = [status |-> "idle"] /\ parsed = [err |-> "idle"]
BundleIdle ==
    /\ zip = [kind |-> "idle"]
    /\ obj = [state |-> "idle"]
    /\ disk = [exists |-> FALSE, files |-> {}, others |-> FALSE]
    /\ calls = [unpack |-> 0, parse |-> 0]
    /\ last = [op |-> "idle"]
    /\ scope = "out"
InstallIdle == job = [check |-> FALSE] /\ run = [pc |-> "idle"]
QueryIdle == query = [op |-> "idle"] /\ reply = [t |-> "idle"]

(***************************************************************************)
(* SpecParse: ApkFile(path) on one answer of aapt.                         *)
(***************************************************************************)
InitParse ==
    /\ aapt_out \in AaptOutputs
    /\ parsed = [err |-> "pending"]
    /\ BundleIdle
    /\ InstallIdle
    /\ QueryIdle

Construct ==
    /\ parsed.err = "pending"
    /\ parsed' = ApkFile("file.apk", aapt_out)
    /\ UNCHANGED <<aapt_out, bundleVars, installVars, queryVars>>

NextParse == Construct

SpecParse == InitParse /\ [][NextParse]_vars

(***************************************************************************)
(* Container archives.  A manifest document is missing, not JSON           *)
(* (malformed), JSON that is no object (array), or a JSON object (info);   *)
(* the members are the base APK and the split APKs, each standing for what *)
(* aapt answers for it.                                                    *)
(***************************************************************************)
BaseText ==
    <<Fragment("package: name=", "", Quoted("com.a")),
      Fragment("versionCode=", "", Quoted("7")),
      Fragment("versionName=", "", Quoted("1.0")),
      Fragment("sdkVersion:", "", Quoted("21")),
      Fragment("targetSdkVersion:", "", Quoted("30")),
      Fragment("uses-permission: name=", "", Quoted("p1")),
      Fragment("uses-feature: name=", "", Quoted("f1")),
      Fragment("launchable-activity: name=", "", Quoted("Main")),
      Fragment("supports-any-density: ", "", Quoted("true")),
      Fragment("densities: ", "", QuotedList(<<"160", "240">>)),
      Fragment("native-code: ", "", QuotedList(<<"x86", "arm64-v8a">>))>>
LangSplitText ==
    <<Fragment("package: name=", "", Quoted("com.a")),
      Fragment("versionCode=", "", Quoted("7")),
      Fragment("split=", "", Quoted("config.fr")),
      Fragment("uses-permission: name=", "", Quoted("p1")),
      Fragment("uses-permission: name=", "", Quoted("p2")),
      Fragment("locales: ", "", Quoted("fr"))>>
AbiSplitText ==
    <<Fragment("package: name=", "", Quoted("com.s")),
      Fragment("versionCode=", "", Quoted("12")),
      Fragment("versionName=", "", Quoted("2.0")),
      Fragment("split=", "", Quoted("config.x86")),
      Fragment("sdkVersion:", "", Quoted("19")),
      Fragment("uses-feature: name=", "", Quoted("f2")),
      Fragment("uses-library:", "", Quoted("lib1")),
      Fragment("launchable-activity: name=", "", Quoted("Other")),
      Fragment("densities: ", "", Quoted("240")),
      Fragment("native-code: ", "", Quoted("x86"))>>

FeatureSplitText ==
    <<Fragment("package: name=", "", Quoted("com.a")),
      Fragment("versionCode=", "", Quoted("7")),
      Fragment("split=", "", Quoted("feature")),
      Fragment("sdkVersion:", "", Quoted("30")),
      Fragment("native-code: ", "", QuotedList(<<"arm64-v8a", "armeabi-v7a">>))>>
Arm64SplitText ==
    <<Fragment("package: name=", "", Quoted("com.a")),
      Fragment("versionCode=", "", Quoted("7")),
      Fragment("split=", "", Quoted("config.arm64_v8a")),
      Fragment("native-code: ", "", Quoted("arm64-v8a"))>>
DpiSplitText ==
    <<Fragment("package: name=", "", Quoted("com.a")),
      Fragment("versionCode=", "", Quoted("7")),
      Fragment("split=", "", Quoted("config.xxhdpi"))>>
EnSplitText ==
    <<Fragment("package: name=", "", Quoted("com.a")),
      Fragment("versionCode=", "", Quoted("7")),
      Fragment("split=", "", Quoted("config.en")),
      Fragment("locales: ", "", Quoted("en"))>>
\* A split that declares its name and nothing else.
BareSplitText(split_name) ==
    <<Fragment("package: name=", "", Quoted("com.a")),
      Fragment("versionCode=", "", Quoted("7")),
      Fragment("split=", "", Quoted(split_name))>>

\* The APK files of the model, by name, and what aapt answers for each.
AaptAnswer(member) ==
    CASE member = "base.apk" -> [status |-> "ok", raw |-> BaseText]
      [] member = "config.fr.apk" -> [status |-> "ok", raw |-> LangSplitText]
      [] member = "config.x86.apk" -> [status |-> "ok", raw |-> AbiSplitText]
      [] member = "feature.apk" -> [status |-> "ok", raw |-> FeatureSplitText]
      [] member = "config.arm64_v8a.apk" -> [status |-> "ok", raw |-> Arm64SplitText]
      [] member = "config.xxhdpi.apk" -> [status |-> "ok", raw |-> DpiSplitText]
      [] member = "config.en.apk" -> [status |-> "ok", raw |-> EnSplitText]
      [] member = "config.ldpi.apk" -> [status |-> "ok", raw |-> BareSplitText("config.ldpi")]
      [] member = "config.tvdpi.apk" -> [status |-> "ok", raw |-> BareSplitText("config.tvdpi")]
      [] member = "assets.apk" -> [status |-> "ok", raw |-> BareSplitText("assets")]
      [] member = "damaged.apk" -> [status |-> "other", raw |-> <<>>]
      [] OTHER -> [status |-> "Invalid file", raw |-> <<>>]
\* The members an archive can hold.
BaseMembers == {"base.apk", "broken.apk"}
SplitMembers == {"config.fr.apk", "config.x86.apk", "broken.apk"}
\* Split lists with a member on which aapt fails with a message of its own
\* (neither 'Invalid file' nor 'AndroidManifest.xml').
DamagedSplits == {<<"damaged.apk">>, <<"config.fr.apk", "damaged.apk">>}

\* The manifest documents of the three container kinds.
ManifestDocs(kind) ==
    {[status |-> "missing"], [status |-> "malformed"], [status |-> "array"]} \cup
    CASE kind = "apkm" ->
           {[status |-> "ok", info |-> [app_name |-> PyStr("App"), apkm_version |-> PyInt(7),
                                        pname |-> PyStr("com.man"), versioncode |-> PyStr("12"),
                                        min_api |-> PyStr("19"),
                                        release_version |-> PyStr("0.9")]],
            [status |-> "ok", info |-> [app_name |-> PyStr("App"), apkm_version |-> PyInt(7),
                                        pname |-> PyStr("com.man"), versioncode |-> PyStr("12"),
                                        min_api |-> PyStr("19")]],
            [status |-> "ok", info |-> [app_name |-> PyStr("App"), apkm_version |-> PyInt(7),
                                        versioncode |-> PyStr("12"), min_api |-> PyStr("19")]]}
      [] kind = "xapk" ->
           {[status |-> "ok", info |-> [name |-> PyStr("App"), xapk_version |-> PyInt(7),
                                        package_name |-> PyStr("com.man"),
                                        version_code |-> PyStr("12"),
                                        min_sdk_version |-> PyStr("19"),
                                        version_name |-> PyStr("0.9"),
                                        target_sdk_version |-> PyStr("21"),
                                        permissions |-> PyList(<<"m1", "m1", "p1">>)]],
            [status |-> "ok", info |-> [name |-> PyStr("App"), xapk_version |-> PyInt(7),
                                        package_name |-> PyStr("com.man"),
                                        version_code |-> PyStr("12"),
                                        min_sdk_version |-> PyStr("19")]],
            [status |-> "ok", info |-> [name |-> PyStr("App"), xapk_version |-> PyInt(7),
                                        package_name |-> PyStr("com.man"),
                                        min_sdk_version |-> PyStr("19")]]}
      [] OTHER ->
           {[status |-> "ok", info |-> [package |-> PyStr("com.man"), label |-> PyStr("App"),
                                        version_code |-> PyInt(12),
                                        version_name |-> PyStr("0.9"),
                                        min_sdk |-> PyInt(19), target_sdk |-> PyInt(21),
                                        meta_version |-> PyInt(7)]],
            [status |-> "ok", info |-> [package |-> PyStr("com.man"), label |-> PyStr("App"),
                                        version_code |-> PyInt(12)]],
            [status |-> "ok", info |-> [label |-> PyStr("App"), version_code |-> PyInt(12)]]}

\* Where the manifest of an archive lives: ApksFile tries meta.sai_v2.json,
\* then meta.sai_v1.json; the other kinds have one name.
ManifestNames(kind) ==
    IF kind = "apks" THEN {"meta.sai_v2.json", "meta.sai_v1.json"}
    ELSE IF kind = "apkm" THEN {"info.json"} ELSE {"manifest.json"}

Kinds == {"apkm", "xapk", "apks"}
\* The members of an archive.  When aapt rejects the base, _extract raises
\* at line 737 before it looks at a split: such archives come without splits.
Members ==
    {[base |-> b, splits |-> ss] :
        b \in BaseMembers \ {"broken.apk"}, ss \in SeqsUpTo(SplitMembers, MaxSplits)}
    \cup {[base |-> "broken.apk", splits |-> <<>>]}
    \cup {[base |-> "base.apk", splits |-> ss] : ss \in DamagedSplits}
\* extract_path is not given, or names a directory: one that does not exist
\* yet, or one that holds files of its own (occupied).  skip_broken_splits
\* is given where it can matter: on an archive with a split aapt fails on.
ArchivesOf(k) ==
    {z \in {[kind |-> k, manifest_name |-> n, manifest |-> m, base |-> ms.base,
             splits |-> ms.splits, extract_path |-> ep, occupied |-> oc,
             skip_broken_splits |-> sk] :
               n \in ManifestNames(k), m \in ManifestDocs(k), ms \in Members,
               ep \in BOOLEAN, oc \in BOOLEAN, sk \in BOOLEAN} :
        /\ z.occupied => z.extract_path
        /\ z.skip_broken_splits =>
               \E i \in DOMAIN z.splits : z.splits[i] \in {"broken.apk", "damaged.apk"}}
Archives == UNION {ArchivesOf(k) : k \in Kinds}

(***************************************************************************)
(* The container object: its public slots are unset (<<>>) or hold a      *)
(* value (<<v>>); the private _extracted and _skip_broken_splits are       *)
(* fields of their own.                                                    *)
(***************************************************************************)
SlotNames ==
    {"path", "base", "splits", "icon", "app_name", "apkm_version", "xapk_version",
     "meta_version", "package_name", "version_code", "version_name", "min_sdk_version",
     "target_sdk_version", "install_location", "labels", "permissions", "libraries",
     "features", "launchable_activity", "supported_screens", "supports_any_density",
     "langs", "densities", "abis", "icons"}
\* A local variable: v is evaluated once and body(v) is the rest of the method.
Local(v, body(_)) == CHOOSE r \in {body(x) : x \in {v}} : TRUE

Unset == <<>>
Set(v) == <<v>>
IsSet(slot) == slot # <<>>
Get(slot) == slot[1]
\* tuple(set(...)): a tuple of the members of a set, in an order the
\* interpreter does not fix.
PyTupleOfSet(S) == [t |-> "tuple", members |-> S]

StrOfInt(i) == CHOOSE s \in DOMAIN IntValue : IntValue[s] = i
\* typ(info[key]) for the three types the manifest tables use.
Typ(typ, v) ==
    CASE typ = "str" ->
           [err |-> "none",
            v |-> IF v.t = "str" THEN v
                  ELSE IF v.t = "int" THEN PyStr(StrOfInt(v.v)) ELSE PyStr("None")]
      [] typ = "int" ->
           IF v.t = "int" THEN [err |-> "none", v |-> v]
           ELSE IF v.t = "str"
                THEN IF IsNumeral(v.v) THEN [err |-> "none", v |-> PyInt(IntValue[v.v])]
                     ELSE [err |-> "ValueError"]
                ELSE [err |-> "TypeError"]
      [] OTHER ->
           IF v.t = "list" THEN [err |-> "none", v |-> PyTuple(v.v)]
           ELSE [err |-> "TypeError"]

ManifestAttr(attr, key, typ, required) ==
    [attr |-> attr, key |-> key, typ |-> typ, required |-> required]
ApkmManifestAttrs ==
    <<ManifestAttr("app_name", "app_name", "str", TRUE),
      ManifestAttr("apkm_version", "apkm_version", "int", TRUE),
      ManifestAttr("package_name", "pname", "str", TRUE),
      ManifestAttr("version_code", "versioncode", "int", TRUE),
      ManifestAttr("min_sdk_version", "min_api", "int", TRUE),
      ManifestAttr("version_name", "release_version", "str", FALSE)>>
XapkManifestAttrs ==
    <<ManifestAttr("app_name", "name", "str", TRUE),
      ManifestAttr("xapk_version", "xapk_version", "int", TRUE),
      ManifestAttr("package_name", "package_name", "str", TRUE),
      ManifestAttr("version_code", "version_code", "int", TRUE),
      ManifestAttr("min_sdk_version", "min_sdk_version", "int", TRUE),
      ManifestAttr("version_name", "version_name", "str", FALSE),
      ManifestAttr("target_sdk_version", "target_sdk_version", "int", FALSE),
      ManifestAttr("permissions", "permissions", "tuple", FALSE)>>
ApksManifestAttrs ==
    <<ManifestAttr("package_name", "package", "str", TRUE),
      ManifestAttr("app_name", "label", "str", TRUE),
      ManifestAttr("version_code", "version_code", "int", TRUE),
      ManifestAttr("version_name", "version_name", "str", FALSE),
      ManifestAttr("min_sdk_version", "min_sdk", "int", FALSE),
      ManifestAttr("target_sdk_version", "target_sdk", "int", FALSE),
      ManifestAttr("meta_version", "meta_version", "int", FALSE)>>
manifest_attrs(kind) ==
    IF kind = "apkm" THEN ApkmManifestAttrs
    ELSE IF kind = "xapk" THEN XapkManifestAttrs ELSE ApksManifestAttrs

\* The loop that copies the manifest's values into the object; it stops at
\* the first statement that raises.
RECURSIVE SetManifestAttrs(_, _, _)
SetManifestAttrs(info, attrs, slots) ==
    IF attrs = <<>> THEN [err |-> "none", slots |-> slots]
    ELSE LET a == Head(attrs)
             present == a.key \in DOMAIN info
         IN IF a.required /\ ~present THEN [err |-> "KeyError"]
            ELSE IF ~present
                 THEN SetManifestAttrs(info, Tail(attrs),
                                       [slots EXCEPT ![a.attr] = Set(PyNone)])
                 ELSE LET c == Typ(a.typ, info[a.key])
                      IN IF c.err # "none" THEN [err |-> c.err]
                         ELSE SetManifestAttrs(info, Tail(attrs),
                                               [slots EXCEPT ![a.attr] = Set(c.v)])

ApkmExtractNames ==
    {"base", "splits", "icon", "target_sdk_version", "permissions", "features", "libraries",
     "labels", "langs", "abis", "supported_screens", "launchable_activity", "densities",
     "supports_any_density"}
XapkExtractNames ==
    {"base", "splits", "icon", "features", "libraries", "labels", "langs",
     "supported_screens", "abis", "launchable_activity", "densities", "supports_any_density"}
ApksExtractNames ==
    {"base", "splits", "icon", "features", "permissions", "libraries", "labels", "langs",
     "abis", "supported_screens", "launchable_activity", "densities", "supports_any_density"}
\* The lambda each kind passes as extract_condition: [err, v].
extract_condition(slf, item) ==
    CASE slf.kind = "apkm" -> [err |-> "none", v |-> item \in ApkmExtractNames]
      [] slf.kind = "xapk" -> [err |-> "none", v |-> item \in XapkExtractNames]
      [] OTHER ->
           IF item \in {"min_sdk_version", "target_sdk_version"}
           THEN IF ~IsSet(slf.slots["meta_version"]) THEN [err |-> "AttributeError"]
                ELSE IF Get(slf.slots["meta_version"]).t # "int" THEN [err |-> "TypeError"]
                ELSE [err |-> "none",
                      v |-> Get(slf.slots["meta_version"]).v < 2 \/ item \in ApksExtractNames]
           ELSE [err |-> "none", v |-> item \in ApksExtractNames]

(***************************************************************************)
(* _extract: unpack the members, mark the object extracted, parse the     *)
(* base and the splits with aapt, aggregate.  The result carries the      *)
(* object, the extraction directory, the call counters and the exception  *)
(* that left the method ("none" when it returned).                        *)
(***************************************************************************)
\* os.path.join(self._extract_path, member): member 0 is the base, member i
\* the i-th split.
MemberPath(i) == [dir |-> "extract_path", member |-> i]

\* ApkFile(path=os.path.join(...)) on each member an archive can hold, at
\* each place it can hold it.
MemberApk ==
    [m \in BaseMembers \cup SplitMembers \cup {"damaged.apk"} |->
        [i \in 0 .. MaxSplits |-> ApkFile(MemberPath(i), AaptAnswer(m))]]

\* The object holds its ApkFile objects by reference.
ApkRef(member, i) == [file |-> member, member |-> i]
Deref(ref) == MemberApk[ref.file][ref.member]

\* The splits loop: the descriptors parsed so far, the members unlinked,
\* the number of aapt runs, and the exception that ended the loop.
RECURSIVE ParseSplits(_, _, _, _)
ParseSplits(members, i, skip, acc) ==
    IF i > Len(members) THEN acc
    ELSE LET apk == MemberApk[members[i]][i]
             ran == [acc EXCEPT !.parses = @ + 1]
         IN IF apk.err = "none"
            THEN ParseSplits(members, i + 1, skip, [ran EXCEPT !.splits = Append(@, ApkRef(members[i], i))])
            ELSE IF apk.err = "FileExistsError" /\ skip
                 THEN ParseSplits(members, i + 1, skip,
                                  [ran EXCEPT !.unlinked = @ \cup {i}])
                 ELSE [ran EXCEPT !.err = apk.err]

BaseAttrs ==
    {"package_name", "version_code", "version_name", "min_sdk_version", "target_sdk_version",
     "supported_screens", "launchable_activity", "densities", "supports_any_density"}
UnionAttrs == {"permissions", "features", "libraries", "langs", "abis"}

UnionOf(base, splits, attr) ==
    PyTupleOfSet(UNION {Range(splits[i][attr].v) : i \in DOMAIN splits}
                 \cup Range(base[attr].v))
\* The dict comprehension over the splits' labels and then the base's.
MergedLabels(base, splits) ==
    LET keys == UNION {DOMAIN splits[i].labels.v : i \in DOMAIN splits}
                \cup DOMAIN base.labels.v
        Holders(k) == {i \in DOMAIN splits : k \in DOMAIN splits[i].labels.v}
        Last(S) == CHOOSE i \in S : \A j \in S : j <= i
    IN PyDict([k \in keys |->
                 IF k \in DOMAIN base.labels.v THEN base.labels.v[k]
                 ELSE splits[Last(Holders(k))].labels.v[k]])

\* The aggregation without lines 750-752: the manifest's values stay.
AggregatedSlots_manifest(slots, base, splits) ==
    Local([i \in DOMAIN splits |-> Deref(splits[i])], LAMBDA apks :
       [n \in SlotNames |->
           CASE n = "splits" -> Set(PyTuple(splits))
             [] n \in UnionAttrs -> Set(UnionOf(base, apks, n))
             [] n = "labels" -> Set(MergedLabels(base, apks))
             [] OTHER -> slots[n]])

AggregatedSlots(slots, base, splits) ==
    Local([i \in DOMAIN splits |-> Deref(splits[i])], LAMBDA apks :
       [n \in SlotNames |->
           CASE n = "splits" -> Set(PyTuple(splits))
             [] n \in BaseAttrs -> Set(base[n])
             [] n \in UnionAttrs -> Set(UnionOf(base, apks, n))
             [] n = "labels" -> Set(MergedLabels(base, apks))
             [] OTHER -> slots[n]])

\* _extract past its early return (lines 734-759).
extract_run(self, z, d, c) ==
    Local(MemberApk[z.base][0], LAMBDA base :
    Local(ParseSplits(z.splits, 1, self.skip_broken_splits,
                      [splits |-> <<>>, unlinked |-> {}, parses |-> 0, err |-> "none"]),
          LAMBDA loop :
    Local([exists |-> TRUE, files |-> d.files \cup (0 .. Len(z.splits)),
           others |-> d.others], LAMBDA d1 :
    Local([self EXCEPT !.extracted = TRUE], LAMBDA marked :
    Local([marked EXCEPT !.slots["base"] = Set(ApkRef(z.base, 0)),
                         !.slots["icon"] = Set(PyStr("icon.png"))], LAMBDA withBase :
       IF base.err # "none"
       THEN [obj |-> marked, disk |-> d1,
             calls |-> [unpack |-> c.unpack + 1, parse |-> c.parse + 1], err |-> base.err]
       ELSE [obj |-> IF loop.err # "none" THEN withBase
                     ELSE [withBase EXCEPT
                             !.slots = AggregatedSlots(withBase.slots, base, loop.splits)],
             disk |-> [d1 EXCEPT !.files = @ \ loop.unlinked],
             calls |-> [unpack |-> c.unpack + 1, parse |-> c.parse + 1 + loop.parses],
             err |-> loop.err])))))

\* _extract without its early return.
extract_unguarded(self, z, d, c) == extract_run(self, z, d, c)

extract(self, z, d, c) ==
    IF self.extracted THEN [obj |-> self, disk |-> d, calls |-> c, err |-> "none"]
    ELSE extract_run(self, z, d, c)

(***************************************************************************)
(* Construction.                                                           *)
(***************************************************************************)
\* _BaseZipApkFile.__init__ reading the manifest under one name.
BaseZipInit(z, manifest_json_path, d, c) ==
    LET doc == IF z.manifest_name = manifest_json_path THEN z.manifest
               ELSE [status |-> "missing"]
        failed(e) == [err |-> e, disk |-> d, calls |-> c]
    IN IF doc.status \in {"missing", "malformed"} THEN failed("FileExistsError")
       ELSE IF doc.status = "array" THEN failed("TypeError")
       ELSE IF z.kind = "xapk" /\ "package_name" \notin DOMAIN doc.info
            THEN failed("FileExistsError")
       ELSE Local(SetManifestAttrs(doc.info, manifest_attrs(z.kind),
                                   [[n \in SlotNames |-> Unset]
                                        EXCEPT !["path"] = Set(PyStr("file"))]),
                  LAMBDA set :
            IF set.err = "KeyError" THEN failed("FileExistsError")
            ELSE IF set.err # "none" THEN failed(set.err)
            ELSE Local([state |-> "live", kind |-> z.kind, extracted |-> FALSE,
                        skip_broken_splits |-> z.skip_broken_splits,
                        slots |-> set.slots],
                       LAMBDA self :
                 IF z.extract_path
                 THEN extract(self, z, d, c)
                 ELSE [obj |-> self,
                       disk |-> [exists |-> TRUE, files |-> {}, others |-> FALSE],
                       calls |-> c, err |-> "none"]))

\* ApksFile.__init__: the v2 manifest, and on FileExistsError the v1 one.
ApksInit(z, d, c) ==
    Local(BaseZipInit(z, "meta.sai_v2.json", d, c), LAMBDA v2 :
       IF v2.err # "FileExistsError" THEN v2
       ELSE Local(BaseZipInit(z, "meta.sai_v1.json", v2.disk, v2.calls), LAMBDA v1 :
               IF v1.err # "none" THEN v1
               ELSE [v1 EXCEPT !.obj.slots["meta_version"] = Set(PyInt(1))]))

ZipInit(z, d, c) ==
    IF z.kind = "apks" THEN ApksInit(z, d, c)
    ELSE BaseZipInit(z, CHOOSE n \in ManifestNames(z.kind) : TRUE, d, c)

(***************************************************************************)
(* SpecBundle: one container archive, constructed and then used.           *)
(***************************************************************************)
InitBundle ==
    /\ zip \in Archives
    /\ obj = [state |-> "new"]
    /\ disk = [exists |-> zip.occupied, files |-> {}, others |-> zip.occupied]
    /\ calls = [unpack |-> 0, parse |-> 0]
    /\ last = [op |-> "idle"]
    /\ scope = "out"
    /\ ParseIdle
    /\ InstallIdle
    /\ QueryIdle

\* ApkmFile(...), XapkFile(...) or ApksFile(...).
ConstructZip ==
    /\ obj.state = "new"
    /\ \E r \in {ZipInit(zip, disk, calls)} :
          /\ obj' = IF r.err = "none" THEN r.obj ELSE [state |-> "failed", err |-> r.err]
          /\ disk' = r.disk
          /\ calls' = r.calls
          /\ last' = [op |-> "init", err |-> r.err]
    /\ UNCHANGED <<zip, scope, parseVars, installVars, queryVars>>

\* A read that extracts before it looks at the slot.
ReadResult_extracting(self, z, d, c, name) ==
    Local(extract(self, z, d, c), LAMBDA x :
       [obj |-> x.obj, disk |-> x.disk, calls |-> x.calls,
        err |-> IF x.err # "none" THEN x.err
                ELSE IF IsSet(x.obj.slots[name]) THEN "none" ELSE "AttributeError",
        ret |-> IF x.err = "none" THEN x.obj.slots[name] ELSE Unset])

\* An attribute read: the slot when it is set, __getattr__ otherwise.
ReadResult(self, z, d, c, name) ==
    LET same(e) == [obj |-> self, disk |-> d, calls |-> c, err |-> e, ret |-> Unset]
    IN IF IsSet(self.slots[name]) THEN [same("none") EXCEPT !.ret = self.slots[name]]
       ELSE Local(extract_condition(self, name), LAMBDA cond :
            IF cond.err # "none" THEN same(cond.err)
            ELSE IF ~cond.v THEN same("AttributeError")
            ELSE Local(extract(self, z, d, c), LAMBDA x :
                 [obj |-> x.obj, disk |-> x.disk, calls |-> x.calls,
                  err |-> IF x.err # "none" THEN x.err
                          ELSE IF IsSet(x.obj.slots[name]) THEN "none"
                          ELSE "AttributeError",
                  ret |-> IF x.err = "none" THEN x.obj.slots[name] ELSE Unset]))

ReadAttr(name) ==
    /\ obj.state = "live"
    /\ \E r \in {ReadResult(obj, zip, disk, calls, name)} :
          /\ obj' = r.obj
          /\ disk' = r.disk
          /\ calls' = r.calls
          /\ last' = [op |-> "read", name |-> name, err |-> r.err, ret |-> r.ret]
    /\ UNCHANGED <<zip, scope, parseVars, installVars, queryVars>>

\* `with bundle:` reaching __enter__, the explicit extraction trigger.  When
\* __enter__ raises, the statement is left at once: the body is not run and
\* __exit__ is not called.
Enter ==
    /\ obj.state = "live"
    /\ scope = "out"
    /\ \E x \in {extract(obj, zip, disk, calls)} :
          /\ obj' = x.obj
          /\ disk' = x.disk
          /\ calls' = x.calls
          /\ last' = [op |-> "extract", err |-> x.err]
          /\ scope' = IF x.err = "none" THEN "in" ELSE "out"
    /\ UNCHANGED <<zip, parseVars, installVars, queryVars>>

\* delete_extracted_files: [disk, err].
DeleteResult(self, d) ==
    IF ~self.extracted THEN [disk |-> d, err |-> "none"]
    ELSE IF ~d.exists THEN [disk |-> d, err |-> "FileNotFoundError"]
    ELSE [disk |-> [exists |-> FALSE, files |-> {}, others |-> FALSE], err |-> "none"]

\* The end of the body of `with bundle:`: __exit__.
Exit ==
    /\ obj.state = "live"
    /\ scope = "in"
    /\ \E r \in {DeleteResult(obj, disk)} :
          /\ disk' = r.disk
          /\ last' = [op |-> "exit", err |-> r.err]
    /\ scope' = "out"
    /\ UNCHANGED <<zip, obj, calls, parseVars, installVars, queryVars>>

DeleteExtractedFiles ==
    /\ obj.state = "live"
    /\ \E r \in {DeleteResult(obj, disk)} :
          /\ disk' = r.disk
          /\ last' = [op |-> "delete", err |-> r.err]
    /\ UNCHANGED <<zip, obj, calls, scope, parseVars, installVars, queryVars>>

\* install(delete_after_install, check): extract, hand base and splits to
\* install_apks (whose own outcome is bridge_err), delete when asked.
Install(delete_after_install, check, bridge_err) ==
    /\ obj.state = "live"
    /\ \E x \in {extract(obj, zip, disk, calls)} :
       \E base \in {ReadResult(x.obj, zip, x.disk, x.calls, "base")} :
       \E splits \in {ReadResult(x.obj, zip, x.disk, x.calls, "splits")} :
       \E del \in {DeleteResult(x.obj, x.disk)} :
       LET called == x.err = "none" /\ base.err = "none" /\ splits.err = "none"
           err == IF x.err # "none" THEN x.err
                  ELSE IF base.err # "none" THEN base.err
                  ELSE IF splits.err # "none" THEN splits.err
                  ELSE bridge_err
           deletes == err = "none" /\ delete_after_install
       IN /\ obj' = x.obj
          /\ calls' = x.calls
          /\ disk' = IF deletes THEN del.disk ELSE x.disk
          /\ last' = [op |-> "install",
                      err |-> IF deletes THEN del.err ELSE err,
                      check |-> check,
                      install_apks |->
                          IF called
                          THEN Set([apks |-> <<Deref(Get(base.ret)).path>> \o
                                             [i \in DOMAIN Get(splits.ret).v |->
                                                  Deref(Get(splits.ret).v[i]).path],
                                    check |-> "default"])
                          ELSE Unset]
    /\ UNCHANGED <<zip, scope, parseVars, installVars, queryVars>>

NextBundle ==
    \/ ConstructZip
    \/ \E name \in SlotNames : ReadAttr(name)
    \/ Enter
    \/ Exit
    \/ DeleteExtractedFiles
    \/ \E d \in BOOLEAN, c \in BOOLEAN, e \in {"none", "RuntimeError"} : Install(d, c, e)

SpecBundle == InitBundle /\ [][NextBundle]_vars

(***************************************************************************)
(* install_apks.  The strings the code cuts and searches are words of a    *)
(* fixed vocabulary; split('.')[-1], endswith and `in` are tables on it.   *)
(***************************************************************************)
dpis == [ldpi |-> 120, mdpi |-> 160, hdpi |-> 240, xhdpi |-> 320, xxhdpi |-> 480,
         xxxhdpi |-> 640]

\* split_name.split('.')[-1]
LastSegment(split_name) ==
    CASE split_name = "config.fr" -> "fr"
      [] split_name = "config.en" -> "en"
      [] split_name = "config.x86" -> "x86"
      [] split_name = "config.arm64_v8a" -> "arm64_v8a"
      [] split_name = "config.xxhdpi" -> "xxhdpi"
      [] split_name = "config.ldpi" -> "ldpi"
      [] split_name = "config.tvdpi" -> "tvdpi"
      [] OTHER -> split_name
\* segment.endswith('dpi')
EndsWithDpi(segment) == segment \in DOMAIN dpis \cup {"dpi", "tvdpi"}
\* part in text, for two strings.
Contains(text, part) ==
    \/ part = ""
    \/ part = text
    \/ <<part, text>> \in {<<"en", "en-US">>, <<"fr", "fr-FR">>}

split_type_language_first(apk) ==
    IF apk.split_name = PyNone THEN "None"
    ELSE LET split_name == LastSegment(apk.split_name.v)
         IN IF \E i \in DOMAIN apk.langs.v : Contains(apk.langs.v[i], split_name)
            THEN "LANGUAGE"
            ELSE IF EndsWithDpi(split_name) THEN "DPI"
            ELSE IF Len(apk.abis.v) = 1 THEN "ABI"
            ELSE "OTHER"
split_type(apk) ==
    IF apk.split_name = PyNone THEN "None"
    ELSE LET split_name == LastSegment(apk.split_name.v)
         IN IF EndsWithDpi(split_name) THEN "DPI"
            ELSE IF \E i \in DOMAIN apk.langs.v : Contains(apk.langs.v[i], split_name)
                 THEN "LANGUAGE"
            ELSE IF Len(apk.abis.v) = 1 THEN "ABI"
            ELSE "OTHER"

\* The files install_apks can be handed, ApkFile(path) of each, os.path.getsize.
InstallFiles ==
    {"base.apk", "feature.apk", "assets.apk", "config.fr.apk", "config.en.apk",
     "config.arm64_v8a.apk", "config.x86.apk", "config.xxhdpi.apk", "config.ldpi.apk",
     "config.tvdpi.apk", "broken.apk"}
InstallApk == [p \in InstallFiles |-> ApkFile(p, AaptAnswer(p))]
FileSize == [p \in InstallFiles |-> IF p = "base.apk" THEN 100 ELSE 10]

\* What the attached devices answer to getprop: the ABI list cut at ',',
\* the locale cut at '-'.
Devices ==
    [d1 |-> [abilist |-> <<"arm64-v8a", "armeabi-v7a", "armeabi">>, abi |-> "arm64-v8a",
             sdk |-> "30", locale |-> <<"fr", "FR">>, density |-> "300"],
     d2 |-> [abilist |-> <<"x86_64", "x86">>, abi |-> "x86_64",
             sdk |-> "21", locale |-> <<"de", "DE">>, density |-> "400"],
     d3 |-> [abilist |-> <<"x86">>, abi |-> "x86",
             sdk |-> "19", locale |-> <<"">>, density |-> "160"]]

\* The loop at lines 141-146: [err, all_apks].
RECURSIVE ParseApks(_, _, _)
ParseApks(apks, skip_broken, all_apks) ==
    IF apks = <<>> THEN [err |-> "none", all_apks |-> all_apks]
    ELSE LET apk == InstallApk[Head(apks)]
         IN IF apk.err = "none" THEN ParseApks(Tail(apks), skip_broken, Append(all_apks, apk))
            ELSE IF apk.err = "FileExistsError" /\ skip_broken
                 THEN ParseApks(Tail(apks), skip_broken, all_apks)
                 ELSE [err |-> apk.err]

Filter(all_apks, types) == SelectSeq(all_apks, LAMBDA apk : split_type(apk) \in types)

\* device_abis is a generator: what one pass of the inner `for device_abi in
\* device_abis` consumes is gone for every later pass.  [found, rest].
RECURSIVE ScanDeviceAbis(_, _)
ScanDeviceAbis(device_abis, apk_abi) ==
    IF device_abis = <<>> THEN [found |-> FALSE, rest |-> <<>>]
    ELSE IF is_compatible_with(Head(device_abis), apk_abi)
         THEN [found |-> TRUE, rest |-> Tail(device_abis)]
         ELSE ScanDeviceAbis(Tail(device_abis), apk_abi)
\* any(... for apk_abi in apk.abis for device_abi in device_abis)
RECURSIVE AnyCompatible(_, _)
AnyCompatible(abis, device_abis) ==
    IF abis = <<>> THEN [found |-> FALSE, rest |-> device_abis]
    ELSE Local(ScanDeviceAbis(device_abis, Head(abis)), LAMBDA scan :
            IF scan.found THEN scan ELSE AnyCompatible(Tail(abis), scan.rest))

\* apks_to_install[path] = size on an insertion-ordered dict, as its keys.
DictSet(keys, path) == IF path \in Range(keys) THEN keys ELSE Append(keys, path)

\* The loop at lines 163-167 over the base and the 'other' splits.
RECURSIVE SelectOthers(_, _, _, _)
SelectOthers(others, device_abis, device_sdk, apks_to_install) ==
    IF others = <<>> THEN apks_to_install
    ELSE LET apk == Head(others)
             sdk_ok == apk.min_sdk_version = PyNone \/ apk.min_sdk_version.v <= device_sdk
         IN IF ~sdk_ok
            THEN SelectOthers(Tail(others), device_abis, device_sdk, apks_to_install)
            ELSE IF apk.abis.v = <<>>
            THEN SelectOthers(Tail(others), device_abis, device_sdk,
                              DictSet(apks_to_install, apk.path))
            ELSE Local(AnyCompatible(apk.abis.v, device_abis), LAMBDA any :
                   SelectOthers(Tail(others), any.rest, device_sdk,
                                IF any.found THEN DictSet(apks_to_install, apk.path)
                                ELSE apks_to_install))

\* next(... if device_main_abi == abi_split.abis[0]), None): found or not.
MainAbiSplits_any(abi_splits, device_main_abi) == abi_splits
MainAbiSplits(abi_splits, device_main_abi) ==
    SelectSeq(abi_splits, LAMBDA apk : apk.abis.v[1] = device_main_abi)

\* Lines 185-191: the language splits that match, or all of them.
LangSelection_strict(lang_splits, device_lang) ==
    SelectSeq(lang_splits, LAMBDA apk :
        \E i \in DOMAIN apk.langs.v : Contains(apk.langs.v[i], device_lang))
LangSelection(lang_splits, device_lang) ==
    LET matching == SelectSeq(lang_splits, LAMBDA apk :
                        \E i \in DOMAIN apk.langs.v : Contains(apk.langs.v[i], device_lang))
    IN IF matching = <<>> THEN lang_splits ELSE matching

Abs(n) == IF n < 0 THEN -n ELSE n
\* Lines 197-203: [closest_dpi, split], closest_dpi = 0 standing for None.
RECURSIVE ClosestDpi_last(_, _, _)
ClosestDpi_last(dpi_splits, device_dpi, best) ==
    IF dpi_splits = <<>> THEN best
    ELSE LET name == LastSegment(Head(dpi_splits).split_name.v)
             closer == /\ name \in DOMAIN dpis
                       /\ \/ best.closest_dpi = 0
                          \/ Abs(dpis[name] - device_dpi) <= Abs(best.closest_dpi - device_dpi)
         IN ClosestDpi_last(Tail(dpi_splits), device_dpi,
                            IF closer THEN [closest_dpi |-> dpis[name], split |-> Head(dpi_splits)]
                            ELSE best)
RECURSIVE ClosestDpi(_, _, _)
ClosestDpi(dpi_splits, device_dpi, best) ==
    IF dpi_splits = <<>> THEN best
    ELSE LET name == LastSegment(Head(dpi_splits).split_name.v)
             closer == /\ name \in DOMAIN dpis
                       /\ \/ best.closest_dpi = 0
                          \/ Abs(dpis[name] - device_dpi) < Abs(best.closest_dpi - device_dpi)
         IN ClosestDpi(Tail(dpi_splits), device_dpi,
                       IF closer THEN [closest_dpi |-> dpis[name], split |-> Head(dpi_splits)]
                       ELSE best)

RECURSIVE DictSetAll(_, _)
DictSetAll(keys, apks) ==
    IF apks = <<>> THEN keys ELSE DictSetAll(DictSet(keys, Head(apks).path), Tail(apks))
RECURSIVE DictOfPaths(_, _)
DictOfPaths(keys, paths) ==
    IF paths = <<>> THEN keys ELSE DictOfPaths(DictSet(keys, Head(paths)), Tail(paths))

\* Lines 139-210 for one device, every bridge command answering: the
\* properties queried, the way the selection ends ("install", "continue",
\* "return" or "raise"), the install set after the loop over the others
\* (selected) and at the end (apks_to_install).
Selection(job_, device) ==
    LET ended(props, exit, err, selected, plan) ==
            [props |-> props, exit |-> exit, err |-> err, selected |-> selected,
             apks_to_install |-> plan]
    IN IF ~job_.check
       THEN ended(<<>>, "install", "none", <<>>, DictOfPaths(<<>>, job_.apks))
       ELSE
       Local(ParseApks(job_.apks, job_.skip_broken, <<>>), LAMBDA parse :
       IF parse.err # "none" THEN ended(<<>>, "raise", parse.err, <<>>, <<>>)
       ELSE IF parse.all_apks = <<>> THEN ended(<<>>, "return", "none", <<>>, <<>>)
       ELSE
       Local(Filter(parse.all_apks, {"LANGUAGE"}), LAMBDA lang_splits :
       Local(Filter(parse.all_apks, {"DPI"}), LAMBDA dpi_splits :
       Local(Filter(parse.all_apks, {"ABI"}), LAMBDA abi_splits :
       Local(SelectOthers(Filter(parse.all_apks, {"None", "OTHER"}),
                          [i \in DOMAIN device.abilist |-> Abi(device.abilist[i])],
                          IntValue[device.sdk], <<>>), LAMBDA selected :
       Local(MainAbiSplits(abi_splits, Abi(device.abi)), LAMBDA main :
       Local(ClosestDpi(dpi_splits, IntValue[device.density],
                        [closest_dpi |-> 0]), LAMBDA closest :
       LET abiProps == IF abi_splits # <<>> THEN <<"ro.product.cpu.abi">> ELSE <<>>
           langProps == IF lang_splits # <<>> THEN <<"persist.sys.locale">> ELSE <<>>
           dpiProps == IF dpi_splits # <<>> THEN <<"ro.sf.lcd_density">> ELSE <<>>
           first == <<"ro.product.cpu.abilist", "ro.build.version.sdk">>
           withAbi == IF main = <<>> THEN selected ELSE DictSet(selected, main[1].path)
           withLang == DictSetAll(withAbi, LangSelection(lang_splits, device.locale[1]))
           withDpi == IF closest.closest_dpi = 0 THEN withLang
                      ELSE DictSet(withLang, closest.split.path)
       IN IF selected = <<>> THEN ended(first, "continue", "none", selected, selected)
          ELSE IF abi_splits # <<>> /\ main = <<>>
               THEN ended(first \o abiProps, "continue", "none", selected, selected)
          ELSE ended(first \o abiProps \o langProps \o dpiProps, "install", "none",
                     selected, withDpi))))))))

\* A bridge command of one device iteration (its name, the paths or the
\* property it names, its number: a session index or a total size) and
\* where the code issues it: before the try ("pre"), inside it ("try") or
\* in its finally ("finally").
Command(cmd, arg, n, zone) == [cmd |-> cmd, arg |-> arg, n |-> n, zone |-> zone]
RECURSIVE SumSizes(_)
SumSizes(paths) == IF paths = <<>> THEN 0 ELSE FileSize[Head(paths)] + SumSizes(Tail(paths))
Commands_create_late(sel) ==
    <<Command("mktemp", <<>>, 0, "pre")>>
    \o [i \in DOMAIN sel.props |-> Command("getprop", <<sel.props[i]>>, 0, "pre")]
    \o IF sel.exit # "install" THEN <<>>
       ELSE <<Command("push", sel.apks_to_install, 0, "try")>>
            \o [i \in DOMAIN sel.apks_to_install |->
                   Command("install-write", <<sel.apks_to_install[i]>>, i - 1, "try")]
            \o <<Command("install-create", <<>>, SumSizes(sel.apks_to_install), "try"),
                 Command("install-commit", <<>>, 0, "try"),
                 Command("rm", <<>>, 0, "finally")>>
Commands(sel) ==
    <<Command("mktemp", <<>>, 0, "pre")>>
    \o [i \in DOMAIN sel.props |-> Command("getprop", <<sel.props[i]>>, 0, "pre")]
    \o IF sel.exit # "install" THEN <<>>
       ELSE <<Command("push", sel.apks_to_install, 0, "try"),
              Command("install-create", <<>>, SumSizes(sel.apks_to_install), "try")>>
            \o [i \in DOMAIN sel.apks_to_install |->
                   Command("install-write", <<sel.apks_to_install[i]>>, i - 1, "try")]
            \o <<Command("install-commit", <<>>, 0, "try"),
                 Command("rm", <<>>, 0, "finally")>>

(***************************************************************************)
(* SpecInstall: one call of install_apks.                                  *)
(***************************************************************************)
RECURSIVE Arrangements(_, _)
\* The lists of at most n different files of S.
Arrangements(S, n) ==
    IF n = 0 THEN {<<>>}
    ELSE LET shorter == Arrangements(S, n - 1)
         IN shorter \cup UNION {{Append(s, x) : x \in S \ Range(s)} :
                                     s \in {t \in shorter : Len(t) = n - 1}}

\* device_id given, or the devices `adb devices` lists.
Targets ==
    {[device_id |-> "d1", attached |-> <<"d1">>],
     [device_id |-> "d2", attached |-> <<"d2">>],
     [device_id |-> "None", attached |-> <<>>],
     [device_id |-> "None", attached |-> <<"d3", "d2">>]}

\* skip_broken is given where it can matter: with check, on a list that
\* holds the file aapt rejects.
Jobs ==
    {j \in {[apks |-> a, check |-> c, skip_broken |-> sb, device_id |-> t.device_id,
             attached |-> t.attached] :
               a \in Arrangements(InstallFiles, MaxApks), c \in BOOLEAN, sb \in BOOLEAN,
               t \in Targets} :
        j.skip_broken => (j.check /\ "broken.apk" \in Range(j.apks))}

InitInstall ==
    /\ job \in Jobs
    /\ run = [pc |-> "start"]
    /\ ParseIdle
    /\ BundleIdle
    /\ QueryIdle

Running(devices, idx, log, sets) ==
    [pc |-> IF idx > Len(devices) THEN "returned" ELSE "devices",
     devices |-> devices, idx |-> idx, log |-> log, sets |-> sets, err |-> "none"]
Ended(pc, r, log, sets, err) ==
    [pc |-> pc, devices |-> r.devices, idx |-> r.idx, log |-> log, sets |-> sets,
     err |-> err]

\* Lines 119-131: find adb, list the devices.
CallInstallApks(outcome) ==
    /\ run.pc = "start"
    /\ outcome = "devices failed" => job.device_id = "None"
    /\ run' = CASE outcome = "no adb" ->
                     [pc |-> "raised", devices |-> <<>>, idx |-> 1, log |-> <<>>,
                      sets |-> <<>>, err |-> "FileNotFoundError"]
                [] outcome = "devices failed" ->
                     [pc |-> "raised", devices |-> <<>>, idx |-> 1, log |-> <<>>,
                      sets |-> <<>>, err |-> "CalledProcessError"]
                [] OTHER -> Running(job.attached, 1, <<>>, <<>>)
    /\ UNCHANGED <<job, parseVars, bundleVars, queryVars>>

\* One pass of the loop at line 133, the fail-th bridge command of the pass
\* failing (0: none does).  The log keeps, for each command issued, the
\* device and whether the command succeeded.
Issued(device, cmds, fail) ==
    [i \in DOMAIN cmds |-> [device |-> device, ok |-> i # fail] @@ cmds[i]]
\* Line 125, 'check': True: the command that fails raises, and the commands
\* after it are not run.
Attempted_unchecked(cmds, fail) == cmds
Attempted(cmds, fail) == SubSeq(cmds, 1, fail)
DeviceIteration ==
    /\ run.pc = "devices"
    /\ \E device \in {run.devices[run.idx]} :
       \E sel \in {Selection(job, Devices[device])} :
       \E cmds \in {Commands(sel)} :
       \E fail \in 0 .. Len(cmds) :
          /\ LET set == [device |-> device, exit |-> sel.exit, selected |-> sel.selected,
                         apks_to_install |-> sel.apks_to_install]
                 rm == <<Command("rm", <<>>, 0, "finally")>>
             IN run' =
                  IF fail = 0
                  THEN LET log == run.log \o Issued(device, cmds, 0)
                           sets == Append(run.sets, set)
                       IN CASE sel.exit = "raise" -> Ended("raised", run, log, run.sets, sel.err)
                            [] sel.exit = "return" -> Ended("returned", run, log, run.sets, "none")
                            [] OTHER -> Running(run.devices, run.idx + 1, log, sets)
                  ELSE LET done == Issued(device, Attempted(cmds, fail), fail)
                           reached == fail > 1 + Len(sel.props)
                           sets == IF reached THEN Append(run.sets, set) ELSE run.sets
                       IN IF cmds[fail].zone = "try"
                          THEN Ended("raised", run, run.log \o done \o Issued(device, rm, 0),
                                     sets, "RuntimeError")
                          ELSE Ended("raised", run, run.log \o done, sets,
                                     "CalledProcessError")
    /\ UNCHANGED <<job, parseVars, bundleVars, queryVars>>

NextInstall ==
    \/ \E outcome \in {"ok", "no adb", "devices failed"} : CallInstallApks(outcome)
    \/ DeviceIteration

SpecInstall == InitInstall /\ [][NextInstall]_vars

(***************************************************************************)
(* SpecQuery: one property or method, asked once on given operands:        *)
(* ApkFile.is_universal (src/apkfile/apk.py), Abi.is_compatible_with and   *)
(* ApkFile.split_type.                                                     *)
(***************************************************************************)
\* len(self.abis) == 0 or all(abi in self.abis for abi in Abi.all())
is_universal_nonempty(self) == \A abi \in Abi_all : abi \in Range(self.abis.v)
is_universal(self) ==
    Len(self.abis.v) = 0 \/ \A abi \in Abi_all : abi \in Range(self.abis.v)

\* The ABI tuples a descriptor can hold: the members of Abi, each at most
\* once, in every order.
AbiTuples == Arrangements(AbiMembers, Cardinality(AbiMembers))

\* Descriptors as split_type reads them: split_name, langs and abis.
QuerySplitNames ==
    {PyNone} \cup {PyStr(n) : n \in {"config.fr", "config.en", "config.x86",
                                      "config.arm64_v8a", "config.xxhdpi", "feature"}}
QueryLangs == {"fr", "en-US", "xxhdpi"}
QueryAbis == {"X86", "ARM64"}
QueryApks ==
    {[split_name |-> n, langs |-> PyTuple(l), abis |-> PyTuple(a)] :
        n \in QuerySplitNames, l \in SeqsUpTo(QueryLangs, MaxDeclared),
        a \in SeqsUpTo(QueryAbis, MaxDeclared)}

Queries ==
    {[op |-> "is_universal", apk |-> [abis |-> PyTuple(a)]] : a \in AbiTuples}
    \cup {[op |-> "is_compatible_with", self |-> a, other |-> b] :
            a \in AbiMembers, b \in AbiMembers}
    \cup {[op |-> "split_type", apk |-> apk] : apk \in QueryApks}

Pending == [t |-> "pending"]

InitQuery ==
    /\ query \in Queries
    /\ reply = Pending
    /\ ParseIdle
    /\ BundleIdle
    /\ InstallIdle

IsUniversal ==
    /\ query.op = "is_universal" /\ reply = Pending
    /\ reply' = PyBool(is_universal(query.apk))
    /\ UNCHANGED <<query, parseVars, bundleVars, installVars>>

IsCompatibleWith ==
    /\ query.op = "is_compatible_with" /\ reply = Pending
    /\ reply' = PyBool(is_compatible_with(query.self, query.other))
    /\ UNCHANGED <<query, parseVars, bundleVars, installVars>>

SplitType ==
    /\ query.op = "split_type" /\ reply = Pending
    /\ reply' = IF split_type(query.apk) = "None" THEN PyNone
                 ELSE PyEnum("SplitType", split_type(query.apk))
    /\ UNCHANGED <<query, parseVars, bundleVars, installVars>>

NextQuery == IsUniversal \/ IsCompatibleWith \/ SplitType

SpecQuery == InitQuery /\ [][NextQuery]_vars

(***************************************************************************)
(* Claims about the parser (SpecParse).                                    *)
(***************************************************************************)
Constructed == parsed.err \notin {"pending", "idle"}
FragmentsOf(tags) == SelectSeq(aapt_out.raw, LAMBDA f : f.tag \in tags)
Present(tags) == aapt_out.status = "ok" /\ FragmentsOf(tags) # <<>>
\* The quoted word of the first fragment with one of the tags.
Given(tags) == FragmentsOf(tags)[1].lex[2]
\* The words of a fragment, quotes and blanks left out.
WordsOf(f) == SelectSeq(f.lex, LAMBDA l : l \notin {Q, SP})

HasPackageAndVersion ==
    /\ Present({"package: name="})
    /\ Present({"versionCode="})
    /\ IsNumeral(Given({"versionCode="}))
IntegersWellFormed ==
    /\ Present({"sdkVersion:"}) => IsNumeral(Given({"sdkVersion:"}))
    /\ Present({"targetSdkVersion:"}) => IsNumeral(Given({"targetSdkVersion:"}))

RequiredAsGiven ==
    /\ parsed.err = "none"
    /\ parsed.package_name = PyStr(Given({"package: name="}))
    /\ parsed.version_code = PyInt(IntValue[Given({"versionCode="})])

NullableFields ==
    [version_name |-> {"versionName="},
     min_sdk_version |-> {"sdkVersion:"},
     target_sdk_version |-> {"targetSdkVersion:"},
     launchable_activity |-> {"launchable-activity: name="},
     split_name |-> {"split="}]
CollectionFields ==
    [labels |-> {"application-label-"},
     permissions |-> {"uses-permission: name="},
     libraries |-> {"uses-library:", "uses-library-not-required:"},
     features |-> {"uses-feature: name=", "uses-feature-not-required: name="},
     supported_screens |-> {"supports-screens: "},
     langs |-> {"locales: "},
     densities |-> {"densities: "},
     abis |-> {"native-code: "},
     icons |-> {"application-icon-"}]
DefaultedFields ==
    [install_location |-> {"install-location:"},
     supports_any_density |-> {"supports-any-density: "}]

EmptyOrNull(x) == x.t = "None" \/ (x.t \in {"tuple", "dict"} /\ x.v = <<>>)

AbsentNullableAreNull ==
    \A f \in DOMAIN NullableFields : ~Present(NullableFields[f]) => parsed[f].t = "None"
AbsentCollectionsAreEmpty ==
    \A f \in DOMAIN CollectionFields :
        ~Present(CollectionFields[f]) => parsed[f].t \in {"tuple", "dict"} /\ parsed[f].v = <<>>

\* C7 as stated: every badging text that contains a package name and a
\* version code parses, the two fields are exactly the values given, and every
\* optional field absent from the text is an empty collection or null.
C7_AsStated ==
    (Constructed /\ HasPackageAndVersion) =>
        /\ RequiredAsGiven
        /\ \A f \in DOMAIN NullableFields \cup DOMAIN CollectionFields \cup DOMAIN DefaultedFields :
              LET tags == (NullableFields @@ CollectionFields @@ DefaultedFields)[f]
              IN  ~Present(tags) => EmptyOrNull(parsed[f])

\* C7 amended: every badging text that contains a package name and an integer
\* version code, and whose sdkVersion and targetSdkVersion (when present) are
\* integers, parses; package_name and version_code are exactly the values
\* given; an absent optional field is null or an empty collection, except
\* supports_any_density, which is False, and install_location, which is AUTO.
C7_ParseDefaults ==
    (Constructed /\ HasPackageAndVersion /\ IntegersWellFormed) =>
        /\ RequiredAsGiven
        /\ AbsentNullableAreNull
        /\ AbsentCollectionsAreEmpty
        /\ ~Present(DefaultedFields["supports_any_density"]) =>
              parsed.supports_any_density = PyBool(FALSE)
        /\ ~Present(DefaultedFields["install_location"]) =>
              parsed.install_location = PyEnum("InstallLocation", "AUTO")

C7_Witness ==
    /\ Constructed /\ HasPackageAndVersion /\ IntegersWellFormed
    /\ parsed.err = "none"
    /\ parsed.version_code = PyInt(12)
    /\ ~Present({"sdkVersion:"}) /\ parsed.min_sdk_version = PyNone
    /\ ~Present({"native-code: "}) /\ parsed.abis = PyTuple(<<>>)
    /\ Present({"uses-permission: name="})

\* C8: when the package name or the version code cannot be located in the
\* text aapt printed, construction raises (the IndexError of the subscript at
\* lines 584-585) and leaves no descriptor.
C8_MissingRequiredFails ==
    (Constructed /\ aapt_out.status = "ok"
       /\ (~Present({"package: name="}) \/ ~Present({"versionCode="}))) =>
        /\ parsed.err = "IndexError"
        /\ DOMAIN parsed = {"err"}

C8_Witness ==
    /\ Constructed
    /\ Present({"package: name="}) /\ ~Present({"versionCode="})
    /\ Present({"sdkVersion:"})
    /\ parsed = [err |-> "IndexError"]

\* C9: every token of the native-code line that is not a known ABI name is
\* parsed as UNKNOWN, the known tokens of the same line are parsed as their
\* members, in order, and the text parses to the same other fields, or fails
\* the same way, as it does without its native-code line.
WithoutNativeCode ==
    [status |-> aapt_out.status,
     raw |-> SelectSeq(aapt_out.raw, LAMBDA f : f.tag # "native-code: ")]
C9_UnknownAbi ==
    (Constructed /\ Present({"native-code: "})) =>
        LET tokens == WordsOf(FragmentsOf({"native-code: "})[1])
            other == ApkFile("file.apk", WithoutNativeCode)
        IN  /\ parsed.err = other.err
            /\ parsed.err = "none" =>
                 /\ Len(parsed.abis.v) = Len(tokens)
                 /\ \A i \in DOMAIN tokens :
                       IF tokens[i] \in Range(AbiValues)
                       THEN AbiValues[parsed.abis.v[i]] = tokens[i]
                       ELSE parsed.abis.v[i] = "UNKNOWN"
                 /\ \A f \in DOMAIN parsed \ {"abis"} : parsed[f] = other[f]

C9_Witness ==
    /\ Constructed /\ parsed.err = "none"
    /\ Present({"native-code: "})
    /\ WordsOf(FragmentsOf({"native-code: "})[1]) = <<"armeabi-v7a", "mips", "x86">>
    /\ parsed.abis = PyTuple(<<"ARM7", "UNKNOWN", "X86">>)
    /\ parsed.permissions = PyTuple(<<"p1">>)

\* C10: install_location is INTERNAL_ONLY for 'internalOnly', PREFER_EXTERNAL
\* for 'preferExternal', and AUTO when the field is missing or unrecognized.
C10_InstallLocation ==
    (Constructed /\ parsed.err = "none") =>
        parsed.install_location =
            PyEnum("InstallLocation",
                   IF ~Present({"install-location:"}) THEN "AUTO"
                   ELSE IF Given({"install-location:"}) = "internalOnly" THEN "INTERNAL_ONLY"
                   ELSE IF Given({"install-location:"}) = "preferExternal" THEN "PREFER_EXTERNAL"
                   ELSE "AUTO")

\* C11: for supported_screens, densities and abis, when the field's line is
\* in the badging text the parsed field holds one entry per quoted token of
\* the line (the first such line), in order, and when the line is absent the
\* field is empty.
DelimitedFields ==
    [supported_screens |-> {"supports-screens: "},
     densities |-> {"densities: "},
     abis |-> {"native-code: "}]
TokensParsed(f) ==
    LET tokens == WordsOf(FragmentsOf(DelimitedFields[f])[1])
    IN  [i \in DOMAIN tokens |-> IF f = "abis" THEN Abi(tokens[i]) ELSE tokens[i]]
C11_DelimitedFields ==
    (Constructed /\ parsed.err = "none") =>
        \A f \in DOMAIN DelimitedFields :
            parsed[f] = PyTuple(IF Present(DelimitedFields[f]) THEN TokensParsed(f) ELSE <<>>)

(***************************************************************************)
(* Claims about install_apks (SpecInstall).                                *)
(***************************************************************************)
Called == run.pc \in {"devices", "returned", "raised"}
\* An APK of the input list that is the base or an 'other' split, whose
\* min_sdk_version the device meets and one of whose ABIs some ABI of the
\* device's list is compatible with.
Eligible(path, device) ==
    LET apk == InstallApk[path]
    IN /\ apk.err = "none"
       /\ split_type(apk) \in {"None", "OTHER"}
       /\ apk.min_sdk_version = PyNone \/ apk.min_sdk_version.v <= IntValue[device.sdk]
       /\ \/ apk.abis.v = <<>>
          \/ \E i \in DOMAIN apk.abis.v, j \in DOMAIN device.abilist :
                 is_compatible_with(Abi(device.abilist[j]), apk.abis.v[i])

\* C1: with check enabled, for every device, every APK of the input list
\* that is no language, density or ABI split, whose min_sdk_version is unset
\* or at most the device SDK and whose abis is empty or holds an ABI that an
\* ABI of the device's list is compatible with, is in the install set.
C1_EligibleSelected ==
    (Called /\ job.check) =>
        \A k \in DOMAIN run.sets : \A i \in DOMAIN job.apks :
            Eligible(job.apks[i], Devices[run.sets[k].device])
                => job.apks[i] \in Range(run.sets[k].selected)

\* The input files aapt accepts, by the split type of their descriptor.
GivenOfType(types) ==
    {p \in Range(job.apks) :
        InstallApk[p].err = "none" /\ split_type(InstallApk[p]) \in types}
\* The bridge commands issued for one device, in the order of their issue.
DeviceLog(device) == SelectSeq(run.log, LAMBDA c : c.device = device)
InstallCommands == {"push", "install-create", "install-write", "install-commit"}
\* The ABI the device answers for ro.product.cpu.abi.
PrimaryAbi(device) == Abi(Devices[device].abi)
HasPrimaryAbi(p, device) == InstallApk[p].abis.v = <<PrimaryAbi(device)>>

\* C15: with check enabled, the install set made for a device holds at most
\* one ABI split, and that split's single ABI is the device's primary ABI;
\* when ABI splits are given and none has the device's primary ABI, no
\* push, install-create, install-write or install-commit is issued for the
\* device.
C15_AbiSplit ==
    (Called /\ job.check) =>
        /\ \A k \in DOMAIN run.sets :
              LET abiIn == Range(run.sets[k].apks_to_install) \cap GivenOfType({"ABI"})
              IN  /\ Cardinality(abiIn) <= 1
                  /\ \A p \in abiIn : HasPrimaryAbi(p, run.sets[k].device)
        /\ \A device \in Range(run.devices) :
              (/\ GivenOfType({"ABI"}) # {}
               /\ \A p \in GivenOfType({"ABI"}) : ~HasPrimaryAbi(p, device))
              => \A i \in DOMAIN DeviceLog(device) :
                     DeviceLog(device)[i].cmd \notin InstallCommands
C15_Witness ==
    /\ run.pc = "returned" /\ job.check
    /\ job.apks = <<"assets.apk", "config.x86.apk", "config.arm64_v8a.apk">>
    /\ job.device_id = "d1"
    /\ run.sets[1].apks_to_install = <<"assets.apk", "config.arm64_v8a.apk">>
    /\ \E i \in DOMAIN run.log : run.log[i].cmd = "install-commit"

\* C16: install_apks with device_id given and check enabled, adb found, every
\* file parsing and every bridge command answering, the selection having
\* come to the ABI splits, of which none has the device's primary ABI: the
\* call raises NoCompatibleAbiError instead of returning.
C16_NoCompatibleAbiError ==
    (/\ run.pc \in {"returned", "raised"}
     /\ job.check /\ job.device_id # "None"
     /\ \A p \in Range(job.apks) : InstallApk[p].err = "none"
     /\ run.err \notin {"FileNotFoundError", "CalledProcessError", "RuntimeError"}
     /\ \E i \in DOMAIN run.log : run.log[i].arg = <<"ro.product.cpu.abi">>
     /\ GivenOfType({"ABI"}) # {}
     /\ \A p \in GivenOfType({"ABI"}) : ~HasPrimaryAbi(p, job.device_id))
    => (run.pc = "raised" /\ run.err = "NoCompatibleAbiError")

\* The device iterations that made an install set and went on to install it.
Installing == {k \in DOMAIN run.sets : run.sets[k].exit = "install"}
Added(k, types) == Range(run.sets[k].apks_to_install) \cap GivenOfType(types)

\* C17: with check enabled and language splits given, the language splits
\* in a device's install set are those whose locales hold the primary subtag
\* of the device locale, or, when there is none, all the language splits.
DeviceLang(device) == Devices[device].locale[1]
LangMatching(device) ==
    {p \in GivenOfType({"LANGUAGE"}) : DeviceLang(device) \in Range(InstallApk[p].langs.v)}
Bucket(p) == LastSegment(InstallApk[p].split_name.v)
BucketDpi == [ldpi |-> 120, mdpi |-> 160, hdpi |-> 240, xhdpi |-> 320, xxhdpi |-> 480,
              xxxhdpi |-> 640]
Bucketed == {p \in GivenOfType({"DPI"}) : Bucket(p) \in DOMAIN BucketDpi}
Distance(p, device) ==
    LET d == BucketDpi[Bucket(p)] - IntValue[Devices[device].density]
    IN  IF d < 0 THEN -d ELSE d
PositionOf(p) == CHOOSE i \in DOMAIN job.apks : job.apks[i] = p
Closest(device) ==
    CHOOSE p \in Bucketed : \A q \in Bucketed \ {p} :
        \/ Distance(p, device) < Distance(q, device)
        \/ Distance(p, device) = Distance(q, device) /\ PositionOf(p) < PositionOf(q)

\* C18 as stated: with check enabled and density splits given, exactly one
\* density split is in a device's install set: the one whose bucket DPI is
\* closest to the device density, the first of the input on a tie.
C18_AsStated ==
    (Called /\ job.check) =>
        \A k \in Installing :
            GivenOfType({"DPI"}) # {} =>
                /\ Cardinality(Added(k, {"DPI"})) = 1
                /\ Added(k, {"DPI"}) \subseteq Bucketed
                /\ Added(k, {"DPI"}) = {Closest(run.sets[k].device)}

\* C18 amended: with check enabled, when one of the density splits given is
\* named after one of the six buckets, exactly one density split is in a
\* device's install set: among the splits so named, the one whose bucket DPI
\* is closest to the device density, the first of the input on a tie; a
\* density split named otherwise (tvdpi) is never in the install set, and
\* when all are, no density split is.
C18_ClosestDensity ==
    (Called /\ job.check) =>
        \A k \in Installing :
            Added(k, {"DPI"}) =
                IF Bucketed = {} THEN {} ELSE {Closest(run.sets[k].device)}
C18_Witness ==
    /\ run.pc = "returned" /\ job.check /\ job.device_id = "d2"
    /\ Devices["d2"].density = "400"
    /\ job.apks = <<"base.apk", "config.ldpi.apk", "config.xxhdpi.apk">>
    /\ run.sets[1].apks_to_install = <<"base.apk", "config.xxhdpi.apk">>
    /\ \E i \in DOMAIN run.log : run.log[i].cmd = "install-commit"

\* The positions of a command in the log of a device.
At(device, cmd) == {i \in DOMAIN DeviceLog(device) : DeviceLog(device)[i].cmd = cmd}

\* C19: with check enabled and the base APK first in the input list, every
\* install plan pushed on a device, and every plan a session is created for,
\* holds the base APK at its head (session index 0).
C19_BaseFirst ==
    (Called /\ job.check /\ job.apks # <<>> /\ job.apks[1] = "base.apk") =>
        \A device \in Range(run.devices) : \A i \in At(device, "push") :
            LET plan == DeviceLog(device)[i].arg
            IN  /\ plan # <<>>
                /\ plan[1] = "base.apk"
                /\ \A j \in At(device, "install-write") :
                      DeviceLog(device)[j].n = 0 => DeviceLog(device)[j].arg = <<"base.apk">>

\* C20 as stated: in the commands issued for one device, install-create
\* comes before push, push before every install-write, every install-write
\* before install-commit, and no install-write or install-commit comes
\* before install-create.
Before(device, first, second) ==
    \A j \in At(device, second) : \E i \in At(device, first) : i < j
C20_AsStated ==
    Called =>
        \A device \in Range(run.devices) :
            /\ Before(device, "install-create", "push")
            /\ Before(device, "push", "install-write")
            /\ Before(device, "install-create", "install-write")
            /\ Before(device, "install-create", "install-commit")
            /\ \A i \in At(device, "install-write"), j \in At(device, "install-commit") : i < j

\* C20 amended: in the commands issued for one device, push comes first,
\* install-create directly after it, then one install-write per payload of
\* the push, in the order of the push and numbered from 0, then
\* install-commit; no install-write or install-commit comes before
\* install-create, and no install-commit before the last install-write.
C20_SessionOrder ==
    Called =>
        \A device \in Range(run.devices) :
            LET log == DeviceLog(device)
            IN  \A i \in DOMAIN log :
                  /\ log[i].cmd = "install-create" => (i > 1 /\ log[i - 1].cmd = "push")
                  /\ log[i].cmd = "install-write" =>
                        LET c == i - 1 - log[i].n
                        IN  /\ c > 1 /\ log[c].cmd = "install-create"
                            /\ log[i].n + 1 \in DOMAIN log[c - 1].arg
                            /\ log[i].arg = <<log[c - 1].arg[log[i].n + 1]>>
                  /\ log[i].cmd = "install-commit" =>
                        \E c \in At(device, "install-create") :
                            /\ i = c + 1 + Len(log[c - 1].arg)
                            /\ \A w \in (c + 1) .. (i - 1) : log[w].cmd = "install-write"
C20_Witness ==
    /\ run.pc = "returned" /\ job.device_id = "d2" /\ job.check
    /\ LET log == DeviceLog("d2")
       IN \E i \in DOMAIN log :
            /\ log[i].cmd = "push" /\ log[i].arg = <<"base.apk", "config.fr.apk">>
            /\ i + 4 \in DOMAIN log
            /\ log[i + 1].cmd = "install-create"
            /\ log[i + 2].cmd = "install-write" /\ log[i + 2].arg = <<"base.apk">>
            /\ log[i + 3].cmd = "install-write" /\ log[i + 3].arg = <<"config.fr.apk">>
            /\ log[i + 4].cmd = "install-commit"

\* C21: for each device, install-commit is issued at most once, and only
\* after a push and an install-create that succeeded and, for every APK of
\* the install set, one install-write that succeeded, the writes numbered
\* 0..n-1 in the order of the set; when the push, the create or a write
\* fails, no install-commit is issued for the device.
SetOf(device) ==
    {run.sets[k].apks_to_install : k \in {j \in DOMAIN run.sets : run.sets[j].device = device}}
C21_CommitOnce ==
    Called =>
        \A device \in Range(run.devices) :
            LET log == DeviceLog(device)
            IN  /\ Cardinality(At(device, "install-commit")) <= 1
                /\ \A i \in At(device, "install-commit") :
                      \E plan \in SetOf(device) :
                          LET c == i - 1 - Len(plan)
                          IN  /\ c > 1
                              /\ log[c - 1].cmd = "push" /\ log[c - 1].ok
                              /\ log[c - 1].arg = plan
                              /\ log[c].cmd = "install-create" /\ log[c].ok
                              /\ \A w \in DOMAIN plan :
                                    /\ log[c + w].cmd = "install-write" /\ log[c + w].ok
                                    /\ log[c + w].n = w - 1
                                    /\ log[c + w].arg = <<plan[w]>>
                              /\ At(device, "install-write") = (c + 1) .. (i - 1)
                /\ (\E i \in DOMAIN log :
                        /\ log[i].cmd \in {"push", "install-create", "install-write"}
                        /\ ~log[i].ok)
                   => At(device, "install-commit") = {}
\* The second device of two commits after three writes that succeeded.
C21_Witness ==
    /\ job.check /\ job.apks = <<"base.apk", "config.fr.apk", "config.en.apk">>
    /\ run.pc = "returned" /\ run.devices = <<"d3", "d2">>
    /\ LET log == DeviceLog("d2")
       IN  \E i \in At("d2", "install-commit") :
              /\ log[i].ok /\ log[i + 1].cmd = "rm"
              /\ log[i - 1].cmd = "install-write" /\ log[i - 1].n = 2
              /\ log[i - 1].ok /\ log[i - 1].arg = <<"config.en.apk">>

\* C22: for every device on which mktemp made a remote directory, rm -rf is
\* issued after it, before the call moves on to the next device or ends,
\* whatever the outcome: install, failed bridge command, device skipped, all
\* APKs broken, error raised during the check.
C22_TempRemoved ==
    Called =>
        \A device \in Range(run.devices) :
            LET log == DeviceLog(device)
            IN  \A i \in At(device, "mktemp") :
                    log[i].ok => \E j \in At(device, "rm") : j > i

\* C23: in a call without device_id and with several devices attached, once
\* the call has ended, a bridge command that failed on one device has not
\* kept the devices after it from their own install attempt: commands were
\* issued for each of them.
FailedOn(device) == \E i \in DOMAIN DeviceLog(device) : ~DeviceLog(device)[i].ok
C23_OthersProceed ==
    (/\ run.pc \in {"returned", "raised"}
     /\ job.device_id = "None" /\ Len(run.devices) > 1)
    => \A i \in DOMAIN run.devices :
          FailedOn(run.devices[i])
              => \A j \in (i + 1) .. Len(run.devices) : DeviceLog(run.devices[j]) # <<>>

(***************************************************************************)
(* Claims about the container archives (SpecBundle).                       *)
(***************************************************************************)
Live == obj.state = "live"
\* What aapt makes of the archive's base and of the splits it can parse.
BaseApk == MemberApk[zip.base][0]
ParsedSplits ==
    {a \in {MemberApk[zip.splits[i]][i] : i \in DOMAIN zip.splits} : a.err = "none"}
\* The extraction ran to its end: line 749 was reached.
ExtractionCompleted == Live /\ IsSet(obj.slots["splits"])

\* C2: in every reachable state of a bundle, the state an extraction that
\* raised leaves behind included, _extracted = true implies that base and
\* splits are set.
C2_ExtractedImpliesSet ==
    (Live /\ obj.extracted) => (IsSet(obj.slots["base"]) /\ IsSet(obj.slots["splits"]))

\* C3: _extract on an extracted bundle changes nothing (base, splits, the
\* aggregated fields, the flag), unpacks nothing and parses nothing, and no
\* read, extract, install or delete takes the flag from true back to false.
C3_ExtractIdempotent ==
    /\ [][(Live /\ obj.extracted /\ last'.op \in {"extract", "read", "install"})
             => (obj' = obj /\ calls' = calls)]_vars
    /\ [][(Live /\ obj.extracted) => (obj'.state = "live" /\ obj'.extracted)]_vars
C3_Witness ==
    /\ Live /\ zip.extract_path /\ obj.extracted
    /\ last.op = "extract" /\ last.err = "none"
    /\ calls = [unpack |-> 1, parse |-> 3]
    /\ Len(Get(obj.slots["splits"]).v) = 2

\* C4: on a bundle constructed without extract_path, reading package_name,
\* version_code, version_name or min_sdk_version returns the manifest
\* document's value (None for a key the document may omit) and leaves the
\* object unextracted: nothing unpacked, nothing parsed, flag false.
ManifestNamed == {"package_name", "version_code", "version_name", "min_sdk_version"}
ManifestKey(kind, name) ==
    CASE kind = "apkm" -> [package_name |-> "pname", version_code |-> "versioncode",
                           version_name |-> "release_version",
                           min_sdk_version |-> "min_api"][name]
      [] kind = "xapk" -> name
      [] OTHER -> [package_name |-> "package", version_code |-> "version_code",
                   version_name |-> "version_name", min_sdk_version |-> "min_sdk"][name]
ManifestValue(name) ==
    LET key == ManifestKey(zip.kind, name)
        info == zip.manifest.info
    IN IF key \notin DOMAIN info THEN PyNone
       ELSE IF name \in {"package_name", "version_name"} THEN info[key]
       ELSE IF info[key].t = "int" THEN info[key] ELSE PyInt(IntValue[info[key].v])
C4_ManifestReads ==
    [][(Live /\ ~zip.extract_path /\ ~obj.extracted
           /\ last'.op = "read" /\ last'.name \in ManifestNamed)
         => /\ obj' = obj /\ calls' = calls /\ disk' = disk
            /\ calls'.unpack = 0 /\ calls'.parse = 0
            /\ last'.err = "none"
            /\ last'.ret = Set(ManifestValue(last'.name))]_vars
C4_Witness ==
    /\ Live /\ ~zip.extract_path /\ ~obj.extracted /\ zip.kind = "apkm"
    /\ last.op = "read" /\ last.name = "min_sdk_version" /\ last.ret = Set(PyInt(19))
    /\ calls = [unpack |-> 0, parse |-> 0]

\* C5: a read of permissions, features, libraries, langs or abis returns,
\* without duplicates, the union of the field over the base and every split
\* that parsed, for each kind and whether or not extraction came first.
C5_UnionReads ==
    (Live /\ last.op = "read" /\ last.name \in UnionAttrs /\ last.err = "none")
        => /\ BaseApk.err = "none"
           /\ last.ret = Set(PyTupleOfSet(Range(BaseApk[last.name].v) \cup
                                          UNION {Range(a[last.name].v) : a \in ParsedSplits}))

\* C6: once extraction has run to its end the bundle's package_name,
\* version_code, version_name, min_sdk_version, target_sdk_version,
\* supported_screens, launchable_activity, densities and
\* supports_any_density are the base APK's, whatever the splits or the
\* manifest document declare, and a read returns them.
C6_BaseOnly ==
    ExtractionCompleted =>
        /\ \A n \in BaseAttrs : obj.slots[n] = Set(BaseApk[n])
        /\ (last.op = "read" /\ last.name \in BaseAttrs)
               => (last.err = "none" /\ last.ret = Set(BaseApk[last.name]))
C6_Witness ==
    /\ ExtractionCompleted
    /\ \E i \in DOMAIN zip.splits : zip.splits[i] = "config.x86.apk"
    /\ last.op = "read" /\ last.name = "package_name" /\ last.ret = Set(PyStr("com.a"))
    /\ zip.manifest.info[ManifestKey(zip.kind, "package_name")] = PyStr("com.man")

\* C24: when a bundle is used in a with statement, the extraction
\* directory is gone once the statement is left, on every way out of it:
\* after __exit__, and after an __enter__ whose extraction raised because
\* the base or a split failed to parse.
ScopeLeft ==
    \/ last.op = "exit"
    \/ last.op = "extract" /\ last.err # "none"
C24_ScopeCleans == (Live /\ ScopeLeft) => ~disk.exists

\* C25: whenever construction, __enter__ or a read runs an extraction on an
\* archive whose base parses and one of whose splits does not, whatever
\* the failure of the split: with
\* skip_broken_splits the extraction completes, splits holds the splits that
\* parse, in the archive's order, and the files of the others are deleted;
\* without it the failure reaches the caller.
FailingSplits == {i \in DOMAIN zip.splits : MemberApk[zip.splits[i]][i].err # "none"}
SplitRefs == [i \in DOMAIN zip.splits |-> ApkRef(zip.splits[i], i)]
ParsingSplits == SelectSeq(SplitRefs, LAMBDA r : Deref(r).err = "none")
C25_BrokenSplits ==
    [][(/\ calls'.unpack # calls.unpack
        /\ last'.op \in {"init", "extract", "read"}
        /\ BaseApk.err = "none" /\ FailingSplits # {})
       => IF zip.skip_broken_splits
          THEN /\ last'.err = "none"
               /\ obj'.state = "live"
               /\ obj'.slots["splits"] = Set(PyTuple(ParsingSplits))
               /\ disk'.files \cap FailingSplits = {}
          ELSE last'.err # "none"]_vars

\* C26: once a bundle's constructor has run on an archive whose manifest
\* document is missing, is not a well-formed key-value document, or lacks
\* the package name or the version code, it has raised FileExistsError and
\* nothing else, and there is no bundle object.
ManifestInvalid ==
    \/ zip.manifest.status # "ok"
    \/ \E n \in {"package_name", "version_code"} :
           ManifestKey(zip.kind, n) \notin DOMAIN zip.manifest.info
C26_InvalidArchive ==
    (obj.state \in {"live", "failed"} /\ ManifestInvalid)
        => (obj.state = "failed" /\ obj.err = "FileExistsError")

\* C27: on an ApksFile whose meta_version is below 2 and that is not
\* extracted, a read of min_sdk_version or target_sdk_version runs the
\* extraction, once, and returns the base APK's value when the extraction
\* succeeds.
OldMeta ==
    /\ Live /\ zip.kind = "apks"
    /\ IsSet(obj.slots["meta_version"])
    /\ Get(obj.slots["meta_version"]).t = "int"
    /\ Get(obj.slots["meta_version"]).v < 2
C27_OldMetaReads ==
    [][(/\ OldMeta /\ ~obj.extracted
        /\ last'.op = "read" /\ last'.name \in {"min_sdk_version", "target_sdk_version"})
       => /\ calls'.unpack = calls.unpack + 1
          /\ obj'.extracted
          /\ last'.err = "none" => last'.ret = Set(BaseApk[last'.name])]_vars

\* install_apks(..., check: bool = True, ...): the value of an argument the
\* caller leaves out.
CheckInForce(call) == IF call.check = "default" THEN TRUE ELSE call.check
\* C28: the check argument of a bundle's install is the check install_apks
\* works with: install(check=False) has install_apks take the base and every
\* split as they are, without selection and device queries, and
\* install(check=True) has it select.
C28_CheckForwarded ==
    (Live /\ last.op = "install" /\ IsSet(last.install_apks))
        => CheckInForce(Get(last.install_apks)) = last.check

\* C29: a read of an attribute documented for the bundle's class,
\* install_location and icons included, never ends in AttributeError,
\* before or after extraction.
DocumentedAttrs(kind) ==
    SlotNames \ ({"apkm_version", "xapk_version", "meta_version"}
                    \ {IF kind = "apkm" THEN "apkm_version"
                       ELSE IF kind = "xapk" THEN "xapk_version" ELSE "meta_version"})
C29_DocumentedReadable ==
    (Live /\ last.op = "read" /\ last.name \in DocumentedAttrs(zip.kind))
        => last.err # "AttributeError"

\* C30: delete_extracted_files on an extracted bundle removes the extracted
\* files and nothing else: the files the directory held besides them stay,
\* path, base, splits, the aggregated fields and the extracted flag are
\* unchanged, and a later read of a field the extraction set returns it
\* without a new extraction; on an unextracted bundle the call changes
\* nothing.
C30_DeleteFrame ==
    /\ [][(Live /\ last'.op = "delete")
            => /\ obj' = obj /\ calls' = calls
               /\ ~obj.extracted => disk' = disk
               /\ (obj.extracted /\ last'.err = "none")
                      => (disk'.files = {} /\ disk'.others = disk.others)]_vars
    /\ [][(ExtractionCompleted /\ last'.op = "read" /\ IsSet(obj.slots[last'.name]))
            => /\ obj' = obj /\ calls' = calls
               /\ last'.err = "none" /\ last'.ret = obj.slots[last'.name]]_vars

(***************************************************************************)
(* Claims about Abi and the descriptor's properties (SpecQuery).           *)
(***************************************************************************)
Asked(op) == query.op = op /\ reply # Pending

\* C12: for every tuple of distinct ABIs, in every order, with or without
\* UNKNOWN, is_universal is true exactly when the tuple is empty or holds
\* every ABI other than UNKNOWN.
KnownAbis == {"ARM", "ARM7", "ARM64", "X86", "X86_64"}
C12_IsUniversal ==
    Asked("is_universal") =>
        reply = PyBool(query.apk.abis.v = <<>> \/ KnownAbis \subseteq Range(query.apk.abis.v))
C12_Witness ==
    /\ Asked("is_universal")
    /\ query.apk.abis.v = <<"X86", "UNKNOWN", "ARM", "X86_64", "ARM64", "ARM7">>
    /\ reply = PyBool(TRUE)

\* C13: a.is_compatible_with(b) is true exactly when a = b or b is in the
\* documented set of a; ARM7.is_compatible_with(X86_64) is false and
\* X86_64.is_compatible_with(ARM7) is true.
Documented ==
    [X86_64 |-> {"X86", "ARM64", "ARM7", "ARM"}, X86 |-> {"ARM64", "ARM7", "ARM"},
     ARM64 |-> {"ARM7", "ARM"}, ARM7 |-> {"ARM"}, ARM |-> {}, UNKNOWN |-> {}]
C13_Compatibility ==
    Asked("is_compatible_with") =>
        /\ reply = PyBool(query.self = query.other \/ query.other \in Documented[query.self])
        /\ (query.self = "ARM7" /\ query.other = "X86_64") => reply = PyBool(FALSE)
        /\ (query.self = "X86_64" /\ query.other = "ARM7") => reply = PyBool(TRUE)
C13_Witness ==
    /\ Asked("is_compatible_with")
    /\ query.self = "X86_64" /\ query.other = "ARM7"
    /\ reply = PyBool(TRUE)

\* C14: split_type is None without split_name; otherwise, on the final
\* dot-segment of split_name: DPI if the segment ends with 'dpi', whatever
\* the locales and ABIs; else LANGUAGE if the segment occurs in one of the
\* locales, whatever the ABIs; else ABI if exactly one ABI is declared; else
\* OTHER.
Segment == LastSegment(query.apk.split_name.v)
DensityTest == EndsWithDpi(Segment)
LanguageTest == \E i \in DOMAIN query.apk.langs.v : Contains(query.apk.langs.v[i], Segment)
AbiTest == Len(query.apk.abis.v) = 1
C14_SplitTypeOrder ==
    Asked("split_type") =>
        IF query.apk.split_name = PyNone THEN reply = PyNone
        ELSE /\ DensityTest => reply = PyEnum("SplitType", "DPI")
             /\ (~DensityTest /\ LanguageTest) => reply = PyEnum("SplitType", "LANGUAGE")
             /\ (~DensityTest /\ ~LanguageTest /\ AbiTest) => reply = PyEnum("SplitType", "ABI")
             /\ (~DensityTest /\ ~LanguageTest /\ ~AbiTest) =>
                    reply = PyEnum("SplitType", "OTHER")
C14_Witness ==
    /\ Asked("split_type")
    /\ query.apk.split_name = PyStr("config.xxhdpi")
    /\ DensityTest /\ LanguageTest /\ AbiTest
    /\ reply = PyEnum("SplitType", "DPI")

====
